---- MODULE Spec2Model ----
(***************************************************************************)
(* Background process supervisor of atlas_prime                            *)
(* (src/src/ui/task_control.rs, TaskControlComponent).                     *)
(*                                                                         *)
(* The UI thread (key handlers, start_or_stop_task) runs concurrently with *)
(* the tokio tasks it spawns: one supervising task ("runner") per start,   *)
(* one I/O pump per successfully spawned child, and the child processes.   *)
(* Every step of each of them is one action; the interleaving of the       *)
(* actions is the scheduling of the multi-threaded runtime.                *)
(***************************************************************************)
EXTENDS Naturals, Integers, Sequences, FiniteSets, TLC

(* ------------------------------------------------------------------ *)
(* Bounds of the model                                                 *)
(* ------------------------------------------------------------------ *)

\* number of ProcessRunner tasks start_or_stop_task may spawn in one run
MaxRunners == 2

\* capacity of the OS pipe to the child's stdin, in written lines
PipeCap == 1

\* longest text typed into the stdin input box
MaxInput == 1

\* Stop messages waiting in one mailbox: the toggle key is not pressed on a
\* Running task while that many Stop messages are still unread
MaxStops == 1

\* number of Enter submissions of a non-empty input: one more than the pipe
\* holds, so that a write to a full pipe happens
MaxSends == PipeCap + 1

\* Enter submissions in a burst: what the pipe and the suspended write take
\* out of the mailbox, a full mailbox, and one more
BurstSends == PipeCap + 1 + 32 + 1

\* Down presses in Log mode: log_scroll is not scrolled past this line
MaxScroll == 1

\* Up presses on an empty task list after selected_idx has wrapped around
MaxWrapped == 1

(* ------------------------------------------------------------------ *)
(* Program constants                                                   *)
(* ------------------------------------------------------------------ *)

\* mpsc::channel::<TaskControlMsg>(32)
CHANNEL_CAP == 32

\* if l.len() > 1000 { l.pop_front(); }
LOG_CAP == 1000

\* log_scroll: u16
U16_MAX == 65535

\* usize::MAX, the value 0usize - 1 wraps to.  usize values are kept modulo
\* 2^64 with the representatives -2^63 .. 2^63 - 1, so usize::MAX is -1.
USIZE_MAX == 0 - 1

(* ------------------------------------------------------------------ *)
(* Data                                                                *)
(* ------------------------------------------------------------------ *)

\* Option<T>: a sequence of length 0 (None) or 1 (Some)
None == << >>
Some(x) == << x >>

\* characters typed in Log mode
LogChars == {"x"}

NL == "\n"

\* TaskDescriptor: the fields the supervisor reads or stores.  command stands
\* for command + args.  A descriptor written this way has no working
\* directory and an empty group.
Desc(id, command, autostart, log_limit, restart_policy) ==
    [id |-> id, command |-> command, autostart |-> autostart,
     log_limit |-> log_limit, restart_policy |-> restart_policy,
     cwd |-> << >>, group |-> ""]

\* The task lists the component is constructed with (the parsed task
\* document followed by the discovered scripts).
TaskLists ==
    { << Desc("sleep", "sleep", FALSE, None, "Never") >>,
      << Desc("cat", "cat", FALSE, Some(2), "Never") >>,
      << Desc("echo", "echo", TRUE, Some(1), "Never") >>,
      << Desc("fail", "fail", FALSE, None, "Always") >>,
      << Desc("missing", "nonexistent", FALSE, None, "Warn") >> }

\* GlobalEvent::Data { key: "rend", .. }, the only event the component sends
Rend == [kind |-> "Data", key |-> "rend"]

\* TaskStatus
Stopped == [tag |-> "Stopped", pid |-> 0, reason |-> <<>>]
Running(pid) == [tag |-> "Running", pid |-> pid, reason |-> <<>>]
Failed(reason) == [tag |-> "Failed", pid |-> 0, reason |-> reason]

\* TaskControlMsg
Stdin(text) == [type |-> "Stdin", text |-> text]
Stop == [type |-> "Stop", text |-> <<>>]

(* ------------------------------------------------------------------ *)
(* TaskDescriptor loading (init)                                       *)
(* ------------------------------------------------------------------ *)

\* The text of a task document: serde_json accepts it (wellformed) or not;
\* descs are the descriptors written in it.  The empty string is no JSON.
Text(wellformed, descs) == [wellformed |-> wellformed, descs |-> descs]
EmptyText == Text(FALSE, << >>)

\* An entry of the scripts directory: file stem, extension, file or not
Entry(stem, ext, is_file) == [stem |-> stem, ext |-> ext, is_file |-> is_file]

\* What init() finds on disk: the task document (None: there is none) and
\* the entries read_dir returns for the scripts directory (None: Err)
Files(document, scripts) == [document |-> document, scripts |-> scripts]

\* AtlasPath::read_task_json(): the text of the task document, if there is one
ReadTaskJson(fs) == fs.document

\* Option<String>::unwrap_or_default()
UnwrapOrDefaultText(opt) == IF opt = None THEN EmptyText ELSE opt[1]

\* from_str taking the descriptors it can read out of a malformed document
FromStrLenient(text) == Some(text.descs)

\* serde_json::from_str::<Vec<TaskDescriptor>>: Ok(descs) as Some(descs),
\* Err as None
FromStr(text) ==
    IF text.wellformed THEN Some(text.descs) ELSE None

\* Result<Vec<TaskDescriptor>>::unwrap_or_default()
UnwrapOrDefaultDescs(res) == IF res = None THEN << >> ELSE res[1]

\* the declared set: line 101-102
DeclaredDescs(fs) ==
    UnwrapOrDefaultDescs(FromStr(UnwrapOrDefaultText(ReadTaskJson(fs))))

\* AtlasPath::get_script_dir()
ScriptDir == "script"

\* the descriptor built for the script file of an entry
DenoTask(entry) ==
    [Desc("deno_" \o entry.stem, "deno", FALSE, Some(1000), "Never")
        EXCEPT !.cwd = Some(ScriptDir), !.group = "Scripts"]

\* the loop over the directory entries without the test of line 110: one
\* descriptor per entry
ScanEntriesUnfiltered(entries, i) ==
    [k \in 1 .. Len(entries) |-> DenoTask(entries[k])]

\* the loop over the directory entries: one descriptor per file with the
\* extension ts, in the order read_dir returns them
RECURSIVE ScanEntries(_, _)
ScanEntries(entries, i) ==
    IF i > Len(entries) THEN << >>
    ELSE (IF entries[i].is_file /\ entries[i].ext = "ts"
          THEN << DenoTask(entries[i]) >> ELSE << >>)
         \o ScanEntries(entries, i + 1)

\* if let Ok(entries) = std::fs::read_dir(&script_dir)
ScriptDescs(fs) ==
    IF fs.scripts = None THEN << >> ELSE ScanEntries(fs.scripts[1], 1)

\* descs when the loop over the runtimes starts (line 141)
LoadDescs(fs) == DeclaredDescs(fs) \o ScriptDescs(fs)

\* a task document declaring list, and an empty scripts directory
DocumentOnly(list) == Files(Some(Text(TRUE, list)), Some(<< >>))

(* ------------------------------------------------------------------ *)
(* The child processes (the environment of the supervisor)             *)
(* ------------------------------------------------------------------ *)

\* cmd.spawn() fails for a command that does not exist.
SpawnFails(command) == command = "nonexistent"

\* What a child does on its own, step by step:
\*   echo   sh -c "echo hi": one stdout line, exit code 0
\*   fail   one stderr line, exit code 1
\*   true   writes nothing, exit code 0
\*   false  writes nothing, exit code 1
\*   crash  writes nothing and is killed by a signal
\*   chatty two stdout lines and two stderr lines, alternating, exit code 0
\*   sleep  long-running: writes nothing, reads nothing, does not exit
\*   cat    copies stdin to stdout (ChildCat), does not exit on its own
Script(command) ==
    CASE command = "echo" -> << [op |-> "out", line |-> <<"h", "i">>],
                                [op |-> "exit", code |-> "0"] >>
      [] command = "fail" -> << [op |-> "err", line |-> <<"o", "h">>],
                                [op |-> "exit", code |-> "1"] >>
      [] command = "true" -> << [op |-> "exit", code |-> "0"] >>
      [] command = "false" -> << [op |-> "exit", code |-> "1"] >>
      [] command = "crash" -> << [op |-> "exit", code |-> "signal"] >>
      [] command = "chatty" -> << [op |-> "out", line |-> <<"o", "1">>],
                                  [op |-> "err", line |-> <<"e", "1">>],
                                  [op |-> "out", line |-> <<"o", "2">>],
                                  [op |-> "err", line |-> <<"e", "2">>],
                                  [op |-> "exit", code |-> "0"] >>
      [] OTHER -> << >>

\* a line as it travels through a pipe, and as BufReader::lines() returns it
WriteLine(text) == text \o <<NL>>
ReadLine(chunk) == SubSeq(chunk, 1, Len(chunk) - 1)

(* ------------------------------------------------------------------ *)
(* State                                                               *)
(* ------------------------------------------------------------------ *)

VARIABLES
    files,          \* what init() reads: the task document and the scripts directory
    tasks,          \* Vec<TaskRuntime>: the descriptors (desc), immutable
    status,         \* tasks[i].status: the StatusCell of task i
    logs,           \* tasks[i].logs: the LogBuffer of task i
    control_tx,     \* tasks[i].control_tx: None, or the runner whose channel the sender feeds
    selected_idx,   \* 0-based, as in the code
    view_mode,      \* "List" or "Log"
    input,          \* the stdin input box
    log_scroll,     \* u16
    runners,        \* the spawned supervising tasks, in spawn order, with their child and pump
    wlocks,         \* the write locks held on StatusCells and LogBuffers
    rendering,      \* the UI thread is inside render()
    panicked,       \* the UI thread has panicked: the process is gone
    unpublished,    \* history: a status or log change no "rend" event has followed
    sent,           \* history: the events sent on the host's event bus (glob_send)
    pushed,         \* history: every line ever push_back'ed to tasks[i].logs, in order
    nSends,         \* history: number of submissions of a non-empty input
    glob_recv,      \* the "rend" events waiting in the supervisor's subscription of the bus
    needs_render    \* App::needs_render, the dirty flag of the host (run_app calls
                    \* request_render() after every key it hands to handle_key)

vars == << files, tasks, status, logs, control_tx, selected_idx, view_mode,
           input, log_scroll, runners, wlocks, rendering, panicked,
           unpublished, sent, pushed, nSends, glob_recv, needs_render >>

uiVars == << selected_idx, view_mode, input, log_scroll >>

\* what no key handler but a faulting one changes
hostVars == << wlocks, rendering, panicked >>

TaskIds == 1 .. Len(tasks)
RunnerIds == 1 .. Len(runners)

\* The state of a freshly spawned supervising task for task t (1-based).
NewRunner(t) ==
    [ task |-> t,
      pc |-> "spawn",            \* spawn -> loop <-> write -> done
      rx |-> << >>,              \* the mailbox of its ControlChannel
      pending |-> << >>,         \* the text of the stdin write in progress
      is_manual_stop |-> FALSE,
      child |-> "none",          \* none, alive, zombie (exited, not waited for), reaped
      exit |-> "none",           \* none, "0", "1", signal
      cpc |-> 1,                 \* the child's position in its script
      stdin |-> << >>,           \* pipe runner -> child
      stdout |-> << >>,          \* pipe child -> pump
      stderr |-> << >>,          \* pipe child -> pump
      pump |-> "none" ]          \* none, run, done

Cmd(r) == tasks[runners[r].task].command

\* the runner is a live tokio task
Live(r) == runners[r].pc # "done"
ChildAlive(r) == runners[r].child = "alive"

\* auto_start_tasks() starting every task, whatever its autostart says
AutoStartIdxAll(list, i) == [k \in 1 .. Len(list) |-> k]

\* indices of the autostart descriptors, in task order
RECURSIVE AutoStartIdx(_, _)
AutoStartIdx(list, i) ==
    IF i > Len(list) THEN << >>
    ELSE (IF list[i].autostart THEN << i >> ELSE << >>) \o AutoStartIdx(list, i + 1)

\* the runner auto_start_tasks() spawned for task i, if any
AutoSender(auto, i) ==
    IF \E k \in 1 .. Len(auto) : auto[k] = i
    THEN Some(CHOOSE k \in 1 .. Len(auto) : auto[k] = i)
    ELSE None

\* glob_recv in the behaviours that leave out the host loop, the only caller
\* of update(): the events waiting in the subscription are not counted
Untracked == 0 - 1

\* init(): every descriptor gets a runtime (Stopped, empty log, no sender);
\* auto_start_tasks() then calls start_or_stop_task for every autostart
\* descriptor, which spawns one runner each.
InitRuntime(list) ==
    LET auto == AutoStartIdx(list, 1) IN
    /\ tasks = list
    /\ status = [i \in 1 .. Len(list) |-> Stopped]
    /\ logs = [i \in 1 .. Len(list) |-> << >>]
    /\ control_tx = [i \in 1 .. Len(list) |-> AutoSender(auto, i)]
    /\ runners = [k \in 1 .. Len(auto) |-> NewRunner(auto[k])]
    /\ selected_idx = 0
    /\ view_mode = "List"
    /\ input = << >>
    /\ log_scroll = 0
    /\ wlocks = {}
    /\ rendering = FALSE
    /\ panicked = FALSE
    /\ unpublished = FALSE
    /\ sent = (IF auto = << >> THEN {} ELSE { Rend })
    /\ pushed = [i \in 1 .. Len(list) |-> << >>]
    /\ nSends = 0
    /\ needs_render = TRUE

\* init() with the files fs on disk
InitFiles(fs) == files = fs /\ InitRuntime(LoadDescs(fs)) /\ glob_recv = Untracked

\* init() with the files fs on disk, in a behaviour with the host loop: the
\* subscription is made (line 160) before auto_start_tasks() sends one
\* "rend" event for every task it starts
InitHosted(fs) ==
    /\ files = fs
    /\ InitRuntime(LoadDescs(fs))
    /\ glob_recv = Len(AutoStartIdx(LoadDescs(fs), 1))

\* init() with a task document that declares list and no script
InitWith(list) == InitFiles(DocumentOnly(list))

Init == \E list \in TaskLists : InitWith(list)

(* ------------------------------------------------------------------ *)
(* The RwLocks of the StatusCells and LogBuffers                       *)
(* ------------------------------------------------------------------ *)

\* A write lock is held between a *.write() and the drop of its guard.  The
\* writers are the runner (status_lock.write(), by |-> r) and the pump of
\* runner r (logs.write() in append_log, by |-> r).  The read guards of the
\* UI thread live within one step of it.
WriteLock(t, cell, r) == [task |-> t, cell |-> cell, by |-> r]

WriteLocked(t, cell) == \E l \in wlocks : l.task = t /\ l.cell = cell

LockedByOther(t, cell, r) ==
    \E l \in wlocks : l.task = t /\ l.cell = cell /\ l.by # r

\* runner r holds the write lock of its task's StatusCell
HoldsStatusLock(r) == WriteLock(runners[r].task, "status", r) \in wlocks

\* the pump of runner r holds the write lock of its task's LogBuffer
HoldsLogsLock(r) == WriteLock(runners[r].task, "logs", r) \in wlocks

\* the guard is dropped
Release(t, cell) == { l \in wlocks : ~ (l.task = t /\ l.cell = cell) }

(* ------------------------------------------------------------------ *)
(* The UI side: start_or_stop_task and the key handlers                *)
(* ------------------------------------------------------------------ *)

\* The UI thread runs one handler at a time, and none after a panic (the
\* panic unwinds main and ends the process).
UiReady == ~ panicked /\ ~ rendering

\* a - b on usize without overflow checks
WrappingSub(a, b) == a - b

\* try_send on a full mailbox making room by dropping the oldest message
TrySendDropsOldest(rs, r, msg) ==
    IF rs[r].pc = "done" THEN rs
    ELSE IF Len(rs[r].rx) < CHANNEL_CAP
    THEN [rs EXCEPT ![r].rx = Append(@, msg)]
    ELSE [rs EXCEPT ![r].rx = Append(Tail(@), msg)]

\* tx.try_send(msg) on the channel of runner r: the message is queued when
\* the receiver still exists and the mailbox has room, and dropped otherwise.
TrySend(rs, r, msg) ==
    IF rs[r].pc # "done" /\ Len(rs[r].rx) < CHANNEL_CAP
    THEN [rs EXCEPT ![r].rx = Append(@, msg)]
    ELSE rs

\* branch 1 dropping the sender after the Stop
StopBranchDropsSender(t) ==
    /\ runners' = (IF control_tx[t] # None
                   THEN TrySend(runners, control_tx[t][1], Stop)
                   ELSE runners)
    /\ control_tx' = [control_tx EXCEPT ![t] = None]
    /\ UNCHANGED status

\* branch 1 with the status set by the UI instead of the runner
StopBranchSetsStopped(t) ==
    /\ runners' = (IF control_tx[t] # None
                   THEN TrySend(runners, control_tx[t][1], Stop)
                   ELSE runners)
    /\ status' = [status EXCEPT ![t] = Stopped]
    /\ UNCHANGED control_tx

\* start_or_stop_task, branch 1: the status is Running.
StopBranch(t) ==
    /\ runners' = (IF control_tx[t] # None
                   THEN TrySend(runners, control_tx[t][1], Stop)
                   ELSE runners)
    /\ UNCHANGED << control_tx, status >>

\* branch 2 with the status set by the UI instead of the runner
StartBranchSetsStatus(t) ==
    /\ Len(runners) < MaxRunners
    /\ runners' = Append(runners, NewRunner(t))
    /\ control_tx' = [control_tx EXCEPT ![t] = Some(Len(runners) + 1)]
    /\ status' = [status EXCEPT ![t] = Running(Len(runners) + 1)]

\* start_or_stop_task, branch 2: a new channel, its sender recorded in the
\* runtime (the previous sender, if any, is dropped), and a new runner.
StartBranch(t) ==
    /\ Len(runners) < MaxRunners
    /\ runners' = Append(runners, NewRunner(t))
    /\ control_tx' = [control_tx EXCEPT ![t] = Some(Len(runners) + 1)]
    /\ UNCHANGED status

\* glob_send.send("rend") as the supervisor's own subscription sees it: one
\* more event waiting (the channel holds 1024 events, more than a run within
\* the bounds sends)
BusSend(n) == IF n = Untracked THEN n ELSE n + 1

\* start_or_stop_task(idx), idx 0-based.  Both branches end with a "rend"
\* event sent on the bus.
StartOrStopTask(idx) ==
    LET t == idx + 1 IN
    /\ IF status[t].tag = "Running" THEN StopBranch(t) ELSE StartBranch(t)
    /\ unpublished' = FALSE /\ sent' = sent \cup { Rend }
    /\ glob_recv' = BusSend(glob_recv)

\* handle_list_keys: 'j' | Down.  % self.tasks.len() panics on an empty list.
ListDown ==
    /\ UiReady
    /\ needs_render' = TRUE
    /\ view_mode = "List"
    /\ IF Len(tasks) = 0
       THEN panicked' = TRUE /\ UNCHANGED selected_idx
       ELSE /\ selected_idx' = (selected_idx + 1) % Len(tasks)
            /\ UNCHANGED panicked
    /\ UNCHANGED << files, tasks, status, logs, control_tx, view_mode, input,
                    log_scroll, runners, wlocks, rendering, unpublished, sent, glob_recv,
                    pushed, nSends >>

\* Up moving the selection the way Down does
UpIndexAsDown(idx, len) ==
    IF len = 0 THEN 0 ELSE (idx + 1) % len

\* selected_idx.checked_sub(1).unwrap_or(self.tasks.len() - 1)
UpIndex(idx, len) ==
    IF idx = 0 THEN WrappingSub(len, 1) ELSE idx - 1

\* handle_list_keys: 'k' | Up.  self.tasks.len() - 1 is evaluated before
\* unwrap_or is called: on an empty list it panics in a build with overflow
\* checks and wraps to usize::MAX in a build without.
ListUp ==
    /\ UiReady
    /\ needs_render' = TRUE
    /\ view_mode = "List"
    /\ IF Len(tasks) = 0
       THEN \E overflow_checks \in BOOLEAN :
               IF overflow_checks
               THEN panicked' = TRUE /\ UNCHANGED selected_idx
               ELSE /\ selected_idx = 0 \/ selected_idx > USIZE_MAX - MaxWrapped
                    /\ selected_idx' = UpIndex(selected_idx, Len(tasks))
                    /\ UNCHANGED panicked
       ELSE /\ selected_idx' = UpIndex(selected_idx, Len(tasks))
            /\ UNCHANGED panicked
    /\ UNCHANGED << files, tasks, status, logs, control_tx, view_mode, input,
                    log_scroll, runners, wlocks, rendering, unpublished, sent, glob_recv,
                    pushed, nSends >>

\* number of Stop messages waiting in the mailbox the sender of task t feeds
StopsQueued(t) ==
    IF control_tx[t] = None THEN 0
    ELSE Len(SelectSeq(runners[control_tx[t][1]].rx, LAMBDA m : m.type = "Stop"))

\* handle_list_keys: 'x'.  &mut self.tasks[idx] panics when idx is no index
\* of the list; task.status.read() waits while a runner holds the write lock.
ListToggle ==
    /\ UiReady
    /\ needs_render' = TRUE
    /\ view_mode = "List"
    /\ IF selected_idx \in 0 .. Len(tasks) - 1
       THEN /\ StopsQueued(selected_idx + 1) < MaxStops
            /\ ~ WriteLocked(selected_idx + 1, "status")
            /\ StartOrStopTask(selected_idx)
            /\ UNCHANGED panicked
       ELSE /\ panicked' = TRUE
            /\ UNCHANGED << status, control_tx, runners, unpublished, sent, glob_recv >>
    /\ UNCHANGED << files, tasks, logs, uiVars, wlocks, rendering, pushed, nSends >>

\* handle_list_keys: Enter
ListEnter ==
    /\ UiReady
    /\ needs_render' = TRUE
    /\ view_mode = "List"
    /\ view_mode' = "Log"
    /\ UNCHANGED << files, tasks, status, logs, control_tx, selected_idx, input,
                    log_scroll, runners, hostVars, unpublished, sent, glob_recv, pushed, nSends >>

\* Esc leaving the input box as it is
LogEscKeepsInput ==
    /\ UiReady
    /\ needs_render' = TRUE
    /\ view_mode = "Log"
    /\ view_mode' = "List"
    /\ UNCHANGED << files, tasks, status, logs, control_tx, selected_idx, input,
                    log_scroll, runners, hostVars, unpublished, sent, glob_recv, pushed, nSends >>

\* handle_log_keys: Esc
LogEsc ==
    /\ UiReady
    /\ needs_render' = TRUE
    /\ view_mode = "Log"
    /\ view_mode' = "List"
    /\ input' = << >>
    /\ UNCHANGED << files, tasks, status, logs, control_tx, selected_idx,
                    log_scroll, runners, hostVars, unpublished, sent, glob_recv, pushed, nSends >>

\* the local echo of handle_log_keys
EchoLine(text) == << ">>> " >> \o text

\* l.push_back(format!(">>> {}", self.input)) of handle_log_keys
EchoPush(l, text) == Append(l, EchoLine(text))

\* handle_log_keys: Enter, in a run where the user submits at most limit
\* non-empty inputs.  task.logs.write() waits while a pump holds the lock; no
\* "rend" event follows the push.
LogEnterUpTo(limit) ==
    /\ UiReady
    /\ needs_render' = TRUE
    /\ view_mode = "Log"
    /\ IF input # << >> /\ selected_idx \in 0 .. Len(tasks) - 1
          /\ control_tx[selected_idx + 1] # None
       THEN LET t == selected_idx + 1 IN
            /\ nSends < limit
            /\ ~ WriteLocked(t, "logs")
            /\ nSends' = nSends + 1
            /\ runners' = TrySend(runners, control_tx[t][1], Stdin(input))
            /\ logs' = [logs EXCEPT ![t] = EchoPush(@, input)]
            /\ pushed' = [pushed EXCEPT ![t] = Append(@, EchoLine(input))]
            /\ unpublished' = TRUE /\ UNCHANGED << sent, glob_recv >>
       ELSE UNCHANGED << nSends, runners, logs, pushed, unpublished, sent, glob_recv >>
    /\ input' = << >>
    /\ UNCHANGED << files, tasks, status, control_tx, selected_idx, view_mode,
                    log_scroll, hostVars >>

LogEnter == LogEnterUpTo(MaxSends)

\* handle_log_keys: Backspace
LogBackspace ==
    /\ UiReady
    /\ needs_render' = TRUE
    /\ view_mode = "Log"
    /\ input' = (IF input = << >> THEN << >> ELSE SubSeq(input, 1, Len(input) - 1))
    /\ UNCHANGED << files, tasks, status, logs, control_tx, selected_idx, view_mode,
                    log_scroll, runners, hostVars, unpublished, sent, glob_recv, pushed, nSends >>

\* Char(c) handed to handle_list_keys although the view is Log: x toggles
\* the selected task
LogCharAsListKey(c) ==
    /\ UiReady
    /\ needs_render' = TRUE
    /\ view_mode = "Log"
    /\ c = "x"
    /\ selected_idx \in 0 .. Len(tasks) - 1
    /\ StopsQueued(selected_idx + 1) < MaxStops
    /\ StartOrStopTask(selected_idx)
    /\ UNCHANGED << files, tasks, logs, uiVars, hostVars, pushed, nSends >>

\* handle_log_keys: Char(c)
LogChar(c) ==
    /\ UiReady
    /\ needs_render' = TRUE
    /\ view_mode = "Log"
    /\ Len(input) < MaxInput
    /\ input' = Append(input, c)
    /\ UNCHANGED << files, tasks, status, logs, control_tx, selected_idx, view_mode,
                    log_scroll, runners, hostVars, unpublished, sent, glob_recv, pushed, nSends >>

\* u16::saturating_sub(1), u16::saturating_add(1)
SaturatingSub1(n) == IF n = 0 THEN 0 ELSE n - 1

\* u16 addition of 1 that wraps around instead of saturating
WrappingAdd1(n) == (n + 1) % (U16_MAX + 1)

SaturatingAdd1(n) ==
    IF n = U16_MAX THEN U16_MAX ELSE n + 1

\* handle_log_keys: Up
LogUp ==
    /\ UiReady
    /\ needs_render' = TRUE
    /\ view_mode = "Log"
    /\ log_scroll' = SaturatingSub1(log_scroll)
    /\ UNCHANGED << files, tasks, status, logs, control_tx, selected_idx, view_mode,
                    input, runners, hostVars, unpublished, sent, glob_recv, pushed, nSends >>

\* handle_log_keys: Down
LogDown ==
    /\ UiReady
    /\ needs_render' = TRUE
    /\ view_mode = "Log"
    /\ log_scroll < MaxScroll
    /\ log_scroll' = SaturatingAdd1(log_scroll)
    /\ UNCHANGED << files, tasks, status, logs, control_tx, selected_idx, view_mode,
                    input, runners, hostVars, unpublished, sent, glob_recv, pushed, nSends >>

\* n is within MaxScroll of an end of the range of u16
NearEnd(n) == n <= MaxScroll \/ n >= U16_MAX - MaxScroll

\* handle_log_keys: Up, pressed where it leaves log_scroll near an end
ScrollUp == NearEnd(log_scroll - 1) /\ LogUp

\* handle_log_keys: Down, pressed where it leaves log_scroll near an end
ScrollDown ==
    /\ UiReady
    /\ needs_render' = TRUE
    /\ view_mode = "Log"
    /\ NearEnd(log_scroll + 1)
    /\ log_scroll' = SaturatingAdd1(log_scroll)
    /\ UNCHANGED << files, tasks, status, logs, control_tx, selected_idx, view_mode,
                    input, runners, hostVars, unpublished, sent, glob_recv, pushed, nSends >>

\* the presses that take log_scroll from MaxScroll to MaxScroll short of
\* the end of the range
HeldPresses == U16_MAX - 2 * MaxScroll

\* saturating_add(1) applied k times
SaturatingAddTimes(n, k) == IF n + k > U16_MAX THEN U16_MAX ELSE n + k

\* handle_log_keys: Down held down (key repeat), taken as one step: the
\* handler runs HeldPresses times in a row; it reads and writes log_scroll
\* only, which no runner, pump or child reads.
ScrollDownHeld ==
    /\ UiReady
    /\ needs_render' = TRUE
    /\ view_mode = "Log"
    /\ log_scroll = MaxScroll
    /\ log_scroll' = SaturatingAddTimes(log_scroll, HeldPresses)
    /\ UNCHANGED << files, tasks, status, logs, control_tx, selected_idx, view_mode,
                    input, runners, hostVars, unpublished, sent, glob_recv, pushed, nSends >>

\* render() has to read: in List mode the StatusCell of every task
\* (render_main_view), in Log mode the LogBuffer of the selected task
\* (render_full_log).  status.read() and logs.read() wait for a writer.
RenderWaits ==
    IF view_mode = "List"
    THEN \E t \in TaskIds : WriteLocked(t, "status")
    ELSE selected_idx \in 0 .. Len(tasks) - 1 /\ WriteLocked(selected_idx + 1, "logs")

\* render(): draws the frame; changes nothing
Render ==
    /\ UiReady
    /\ ~ RenderWaits
    /\ UNCHANGED vars

\* render() is called by the host's frame tick
RenderBegin ==
    /\ UiReady
    /\ rendering' = TRUE
    /\ UNCHANGED << files, needs_render, tasks, status, logs, control_tx, uiVars, runners, wlocks,
                    panicked, unpublished, sent, glob_recv, pushed, nSends >>

\* render() has taken its read locks, drawn the frame and returns
RenderEnd ==
    /\ rendering
    /\ ~ RenderWaits
    /\ rendering' = FALSE
    /\ UNCHANGED << files, needs_render, tasks, status, logs, control_tx, uiVars, runners, wlocks,
                    panicked, unpublished, sent, glob_recv, pushed, nSends >>

(* ------------------------------------------------------------------ *)
(* The host render loop (run_app)                                      *)
(* ------------------------------------------------------------------ *)

\* update() finding no event it takes for a redraw request
UpdateNeverTrue(n) == FALSE

\* update(): try_recv until an event with the key "rend" is found; true
\* when there is one; n is the number of such events waiting
UpdateReturns(n) ==
    n > 0

\* update() returns at the first "rend" event and leaves the others waiting
UpdateLeaves(n) == IF n > 0 THEN n - 1 ELSE n

\* App::update and App::tick: update() of every component, request_render()
\* when one of them has changed; other_changed is what the components
\* beside the supervisor report
AppUpdate(other_changed) ==
    /\ glob_recv' = UpdateLeaves(glob_recv)
    /\ needs_render' = (UpdateReturns(glob_recv) \/ other_changed \/ needs_render)

\* run_app, arm interval.tick(): if app.update() { app.needs_render = true }
StatusTick ==
    /\ UiReady
    /\ \E other_changed \in BOOLEAN : AppUpdate(other_changed)
    /\ UNCHANGED << files, tasks, status, logs, control_tx, uiVars, runners, hostVars,
                    unpublished, sent, pushed, nSends >>

\* run_app, arm background_rx.recv(): app.tick()
BackgroundTick ==
    /\ UiReady
    /\ \E other_changed \in BOOLEAN : AppUpdate(other_changed)
    /\ UNCHANGED << files, tasks, status, logs, control_tx, uiVars, runners, hostVars,
                    unpublished, sent, pushed, nSends >>

\* run_app, arm reader.next(): Event::Resize
Resize ==
    /\ UiReady
    /\ needs_render' = TRUE
    /\ UNCHANGED << files, tasks, status, logs, control_tx, uiVars, runners, hostVars,
                    unpublished, sent, glob_recv, pushed, nSends >>

\* run_app, arm wait_for_render(): a frame tick that finds should_draw()
\* true; terminal.draw calls render().  (A frame tick that finds it false
\* changes nothing.)
FrameTick ==
    /\ UiReady
    /\ needs_render
    /\ rendering' = TRUE
    /\ UNCHANGED << files, needs_render, tasks, status, logs, control_tx, uiVars, runners,
                    wlocks, panicked, unpublished, sent, glob_recv, pushed, nSends >>

\* render() has taken its read locks and drawn the frame, terminal.draw
\* returns, and clear_render_request() follows
FrameDrawn ==
    /\ rendering
    /\ ~ RenderWaits
    /\ rendering' = FALSE
    /\ needs_render' = FALSE
    /\ UNCHANGED << files, tasks, status, logs, control_tx, uiVars, runners,
                    wlocks, panicked, unpublished, sent, glob_recv, pushed, nSends >>

(* ------------------------------------------------------------------ *)
(* The ProcessRunner: the task spawned by start_or_stop_task           *)
(* ------------------------------------------------------------------ *)

\* append_log putting the line in front of the buffer
AppendLogAtFront(l, line) == << line >> \o l

\* append_log starting the buffer afresh with the line
AppendLogFresh(l, line) == << line >>

\* append_log: push_back, then evict the oldest line above 1000 lines
AppendLog(l, line) ==
    LET l2 == Append(l, line) IN
    IF Len(l2) > LOG_CAP THEN Tail(l2) ELSE l2

\* the Err(e) arm with the error swallowed: the status is left as it was
SpawnFailedSilently(r) ==
    /\ status' = status
    /\ runners' = [runners EXCEPT ![r].pc = "done", ![r].rx = << >>]

\* the Err(e) arm marking every task of the supervisor Failed
SpawnFailedAll(r) ==
    /\ status' = [t \in TaskIds |-> Failed(<< "spawn error" >>)]
    /\ runners' = [runners EXCEPT ![r].pc = "done", ![r].rx = << >>]

\* the Err(e) arm of cmd.spawn(): the status becomes Failed(e.to_string())
\* and the task ends, dropping rx with the messages already in it
SpawnFailed(r) ==
    /\ status' = [status EXCEPT ![runners[r].task] = Failed(<< "spawn error" >>)]
    /\ runners' = [runners EXCEPT ![r].pc = "done", ![r].rx = << >>]

\* the Ok(child) arm of cmd.spawn(): the status becomes Running{pid}, the
\* pipes are taken and the I/O pump is spawned
SpawnOk(r) ==
    /\ status' = [status EXCEPT ![runners[r].task] = Running(r)]
    /\ runners' = [runners EXCEPT ![r].pc = "loop", ![r].child = "alive",
                                  ![r].pump = "run"]

\* status_lock.write() returns: the runner holds the write lock of the
\* StatusCell until it has written the status.  It takes the lock to write
\* the outcome of cmd.spawn(), and the final status once the child has exited.
RunnerLockStatus(r) ==
    /\ \/ runners[r].pc = "spawn"
       \/ runners[r].pc = "loop" /\ runners[r].child \in {"zombie", "reaped"}
    /\ ~ WriteLocked(runners[r].task, "status")
    /\ wlocks' = wlocks \cup { WriteLock(runners[r].task, "status", r) }
    /\ UNCHANGED << files, needs_render, tasks, status, logs, control_tx, uiVars, runners, rendering,
                    panicked, unpublished, sent, glob_recv, pushed, nSends >>

\* the runner task starts: cmd.spawn(), and the status written under the
\* write lock.  No "rend" event follows the write.
RunnerSpawn(r) ==
    /\ runners[r].pc = "spawn"
    /\ ~ LockedByOther(runners[r].task, "status", r)
    /\ IF SpawnFails(Cmd(r)) THEN SpawnFailed(r) ELSE SpawnOk(r)
    /\ wlocks' = Release(runners[r].task, "status")
    /\ unpublished' = TRUE /\ UNCHANGED << sent, glob_recv >>
    /\ UNCHANGED << files, needs_render, tasks, logs, control_tx, uiVars, rendering, panicked,
                    pushed, nSends >>

\* the final status decided by the exit status alone
FinalStatusByExitOnly(is_manual_stop, exit) ==
    IF exit = "0"
    THEN Stopped
    ELSE Failed(<< "Exit Code: ", IF exit = "signal" THEN "Killed by signal" ELSE exit >>)

\* the status the runner resolves to once child.wait() has returned the
\* child's exit status.  (child.wait() itself fails only when the child was
\* reaped by someone else, which nothing in the program does.)
FinalStatus(is_manual_stop, exit) ==
    IF is_manual_stop \/ exit = "0"
    THEN Stopped
    ELSE Failed(<< "Exit Code: ", IF exit = "signal" THEN "Killed by signal" ELSE exit >>)

\* select! arm child.wait(): the child has exited; the loop breaks, the final
\* status is written and the task ends: rx is dropped with the messages still
\* in it
RunnerWait(r) ==
    /\ runners[r].pc = "loop"
    /\ runners[r].child \in {"zombie", "reaped"}
    /\ ~ LockedByOther(runners[r].task, "status", r)
    /\ wlocks' = Release(runners[r].task, "status")
    /\ unpublished' = TRUE /\ UNCHANGED << sent, glob_recv >>
    /\ status' = [status EXCEPT ![runners[r].task] =
                      FinalStatus(runners[r].is_manual_stop, runners[r].exit)]
    /\ runners' = [runners EXCEPT ![r].pc = "done", ![r].child = "reaped",
                                  ![r].rx = << >>]
    /\ UNCHANGED << files, needs_render, tasks, logs, control_tx, uiVars, rendering, panicked,
                    pushed, nSends >>

\* the stdin write without write_all(b"\n")
WriteStdinNoNewline(run, text) ==
    IF run.child # "alive"
    THEN [run EXCEPT !.pc = "loop", !.pending = << >>]
    ELSE IF Len(run.stdin) < PipeCap
    THEN [run EXCEPT !.pc = "loop", !.pending = << >>, !.stdin = Append(@, text)]
    ELSE [run EXCEPT !.pc = "write", !.pending = text]

\* stdin.write_all(text), write_all(b"\n"), flush(): the line enters the pipe
\* when it has room; the write fails at once (and is ignored) when the child
\* has exited; it suspends the runner while the pipe is full
WriteStdin(run, text) ==
    IF run.child # "alive"
    THEN [run EXCEPT !.pc = "loop", !.pending = << >>]
    ELSE IF Len(run.stdin) < PipeCap
    THEN [run EXCEPT !.pc = "loop", !.pending = << >>,
                     !.stdin = Append(@, WriteLine(text))]
    ELSE [run EXCEPT !.pc = "write", !.pending = text]

\* select! arm rx.recv(), message Stdin(text)
RunnerRecvStdin(r) ==
    /\ runners[r].pc = "loop"
    /\ ~ HoldsStatusLock(r)
    /\ runners[r].rx # << >>
    /\ Head(runners[r].rx).type = "Stdin"
    /\ runners' = [runners EXCEPT ![r] =
                      WriteStdin([@ EXCEPT !.rx = Tail(@)], Head(runners[r].rx).text)]
    /\ UNCHANGED << files, needs_render, tasks, status, logs, control_tx, uiVars, hostVars,
                    unpublished, sent, glob_recv, pushed, nSends >>

\* a suspended stdin write resumes: the child has read from the pipe, or exited
RunnerWriteResume(r) ==
    /\ runners[r].pc = "write"
    /\ runners[r].child # "alive" \/ Len(runners[r].stdin) < PipeCap
    /\ runners' = [runners EXCEPT ![r] = WriteStdin(@, runners[r].pending)]
    /\ UNCHANGED << files, needs_render, tasks, status, logs, control_tx, uiVars, hostVars,
                    unpublished, sent, glob_recv, pushed, nSends >>

\* child.kill().await: SIGKILL, then the wait inside kill() reaps the child;
\* a child that had already exited keeps its exit status.  What the child
\* had not read from its stdin is gone with it.
Kill(run) ==
    [run EXCEPT !.child = "reaped",
                !.exit = IF run.child = "alive" THEN "signal" ELSE @,
                !.stdin = << >>]

\* the Stop arm writing Stopped and leaving the loop at once, without killing
\* the child and waiting for it
RunnerRecvStopExits(r) ==
    /\ runners[r].pc = "loop"
    /\ ~ HoldsStatusLock(r)
    /\ runners[r].rx # << >>
    /\ Head(runners[r].rx).type = "Stop"
    /\ status' = [status EXCEPT ![runners[r].task] = Stopped]
    /\ runners' = [runners EXCEPT ![r].pc = "done", ![r].rx = << >>,
                                  ![r].is_manual_stop = TRUE]
    /\ UNCHANGED << files, needs_render, tasks, logs, control_tx, uiVars, hostVars,
                    unpublished, sent, glob_recv, pushed, nSends >>

\* select! arm rx.recv(), message Stop
RunnerRecvStop(r) ==
    /\ runners[r].pc = "loop"
    /\ ~ HoldsStatusLock(r)
    /\ runners[r].rx # << >>
    /\ Head(runners[r].rx).type = "Stop"
    /\ runners' = [runners EXCEPT ![r] =
                      Kill([@ EXCEPT !.rx = Tail(@), !.is_manual_stop = TRUE])]
    /\ UNCHANGED << files, needs_render, tasks, status, logs, control_tx, uiVars, hostVars,
                    unpublished, sent, glob_recv, pushed, nSends >>

(* ------------------------------------------------------------------ *)
(* The I/O pump                                                        *)
(* ------------------------------------------------------------------ *)

\* a pipe from the child is at end-of-stream: drained, and the child gone
Eof(run, stream) == run[stream] = << >> /\ run.child # "alive"

\* the line the pump appends for a line read from a stream
PumpLine(stream, l) == IF stream = "stderr" THEN << "[ERR] " >> \o l ELSE l

\* logs.write() of append_log returns: the pump holds the write lock of the
\* LogBuffer until it has pushed the line and sent the "rend" event
PumpLockLogs(r) ==
    /\ runners[r].pump = "run"
    /\ runners[r].stdout # << >> \/ runners[r].stderr # << >>
    /\ ~ WriteLocked(runners[r].task, "logs")
    /\ wlocks' = wlocks \cup { WriteLock(runners[r].task, "logs", r) }
    /\ UNCHANGED << files, needs_render, tasks, status, logs, control_tx, uiVars, runners, rendering,
                    panicked, unpublished, sent, glob_recv, pushed, nSends >>

\* select! arm next_line() = Ok(Some(l)) of out_reader or err_reader:
\* append_log pushes the line under the write lock and sends a "rend" event
PumpRead(r, stream) ==
    /\ runners[r].pump = "run"
    /\ runners[r][stream] # << >>
    /\ ~ LockedByOther(runners[r].task, "logs", r)
    /\ wlocks' = Release(runners[r].task, "logs")
    /\ unpublished' = FALSE /\ sent' = sent \cup { Rend }
    /\ glob_recv' = BusSend(glob_recv)
    /\ LET t == runners[r].task
           line == PumpLine(stream, ReadLine(Head(runners[r][stream])))
       IN /\ logs' = [logs EXCEPT ![t] = AppendLog(@, line)]
          /\ pushed' = [pushed EXCEPT ![t] = Append(@, line)]
    /\ runners' = [runners EXCEPT ![r][stream] = Tail(@)]
    /\ UNCHANGED << files, needs_render, tasks, status, control_tx, uiVars, rendering, panicked,
                    nSends >>

\* a pump whose loop has no break
PumpNeverBreaks(run) == FALSE

\* when the pump's loop breaks
PumpBreaks(run) ==
    Eof(run, "stdout") \/ Eof(run, "stderr")

\* select! arm next_line() = Ok(None): the else { break; } of either reader.
\* The pump task ends and drops both readers with what they had not read.
PumpEnd(r) ==
    /\ runners[r].pump = "run"
    /\ ~ HoldsLogsLock(r)
    /\ PumpBreaks(runners[r])
    /\ runners' = [runners EXCEPT ![r].pump = "done", ![r].stdout = << >>,
                                  ![r].stderr = << >>]
    /\ UNCHANGED << files, needs_render, tasks, status, logs, control_tx, uiVars, hostVars,
                    unpublished, sent, glob_recv, pushed, nSends >>

(* ------------------------------------------------------------------ *)
(* The child process                                                   *)
(* ------------------------------------------------------------------ *)

\* the child performs the next step of its script
ChildStep(r) ==
    /\ runners[r].child = "alive"
    /\ runners[r].cpc <= Len(Script(Cmd(r)))
    /\ LET s == Script(Cmd(r))[runners[r].cpc] IN
       runners' = [runners EXCEPT ![r] =
           CASE s.op = "out" -> [@ EXCEPT !.cpc = @ + 1,
                                          !.stdout = Append(@, WriteLine(s.line))]
             [] s.op = "err" -> [@ EXCEPT !.cpc = @ + 1,
                                          !.stderr = Append(@, WriteLine(s.line))]
             [] s.op = "exit" -> [@ EXCEPT !.cpc = @ + 1, !.child = "zombie",
                                           !.exit = s.code, !.stdin = << >>]]
    /\ UNCHANGED << files, needs_render, tasks, status, logs, control_tx, uiVars, hostVars,
                    unpublished, sent, glob_recv, pushed, nSends >>

\* cat copies one line of its stdin to its stdout
ChildCat(r) ==
    /\ Cmd(r) = "cat"
    /\ runners[r].child = "alive"
    /\ runners[r].stdin # << >>
    /\ runners' = [runners EXCEPT ![r].stdin = Tail(@),
                                  ![r].stdout = Append(@, Head(runners[r].stdin))]
    /\ UNCHANGED << files, needs_render, tasks, status, logs, control_tx, uiVars, hostVars,
                    unpublished, sent, glob_recv, pushed, nSends >>

(* ------------------------------------------------------------------ *)
(* Specifications                                                      *)
(* ------------------------------------------------------------------ *)

Next ==
    \/ ListDown
    \/ ListUp
    \/ ListToggle
    \/ ListEnter
    \/ LogEsc
    \/ LogEnter
    \/ LogBackspace
    \/ \E c \in LogChars : LogChar(c)
    \/ LogUp
    \/ LogDown
    \/ Render
    \/ \E r \in RunnerIds : RunnerSpawn(r)
    \/ \E r \in RunnerIds : RunnerWait(r)
    \/ \E r \in RunnerIds : RunnerRecvStdin(r)
    \/ \E r \in RunnerIds : RunnerWriteResume(r)
    \/ \E r \in RunnerIds : RunnerRecvStop(r)
    \/ \E r \in RunnerIds, stream \in {"stdout", "stderr"} : PumpRead(r, stream)
    \/ \E r \in RunnerIds : PumpEnd(r)
    \/ \E r \in RunnerIds : ChildStep(r)
    \/ \E r \in RunnerIds : ChildCat(r)

Spec == Init /\ [][Next]_vars

\* The scheduling the tokio runtime gives: every spawned task that can take a
\* step eventually takes it, and select! picks among its ready arms at random,
\* so an arm that stays ready is eventually taken.  Children that have
\* something to do make progress.  The user may stop pressing keys.
Fairness ==
    \A r \in 1 .. MaxRunners :
        /\ WF_vars(r \in RunnerIds /\ RunnerSpawn(r))
        /\ WF_vars(r \in RunnerIds /\ RunnerWait(r))
        /\ WF_vars(r \in RunnerIds /\ RunnerRecvStdin(r))
        /\ WF_vars(r \in RunnerIds /\ RunnerWriteResume(r))
        /\ WF_vars(r \in RunnerIds /\ RunnerRecvStop(r))
        /\ WF_vars(r \in RunnerIds /\ PumpRead(r, "stdout"))
        /\ WF_vars(r \in RunnerIds /\ PumpRead(r, "stderr"))
        /\ WF_vars(r \in RunnerIds /\ PumpEnd(r))
        /\ WF_vars(r \in RunnerIds /\ ChildStep(r))
        /\ WF_vars(r \in RunnerIds /\ ChildCat(r))

FairSpec == Init /\ [][Next]_vars /\ Fairness

\* The supervisor constructed with tasks whose child, if it can be spawned at
\* all, runs until it is killed (sleep, cat): no child has a script, so
\* ChildStep and reads of stderr are no steps of these behaviours.
QuietLists ==
    { list \in TaskLists :
        \A i \in 1 .. Len(list) : list[i].command \in {"sleep", "cat", "nonexistent"} }

InitQuiet == \E list \in QuietLists : InitWith(list)

NextQuiet ==
    \/ ListDown
    \/ ListUp
    \/ ListToggle
    \/ ListEnter
    \/ LogEsc
    \/ LogEnter
    \/ LogBackspace
    \/ \E c \in LogChars : LogChar(c)
    \/ Render
    \/ \E r \in RunnerIds : RunnerSpawn(r)
    \/ \E r \in RunnerIds : RunnerWait(r)
    \/ \E r \in RunnerIds : RunnerRecvStdin(r)
    \/ \E r \in RunnerIds : RunnerWriteResume(r)
    \/ \E r \in RunnerIds : RunnerRecvStop(r)
    \/ \E r \in RunnerIds : PumpRead(r, "stdout")
    \/ \E r \in RunnerIds : PumpEnd(r)
    \/ \E r \in RunnerIds : ChildCat(r)

QuietSpec == InitQuiet /\ [][NextQuiet]_vars

FairnessQuiet ==
    \A r \in 1 .. MaxRunners :
        /\ WF_vars(r \in RunnerIds /\ RunnerSpawn(r))
        /\ WF_vars(r \in RunnerIds /\ RunnerWait(r))
        /\ WF_vars(r \in RunnerIds /\ RunnerRecvStdin(r))
        /\ WF_vars(r \in RunnerIds /\ RunnerWriteResume(r))
        /\ WF_vars(r \in RunnerIds /\ RunnerRecvStop(r))
        /\ WF_vars(r \in RunnerIds /\ PumpRead(r, "stdout"))
        /\ WF_vars(r \in RunnerIds /\ PumpEnd(r))
        /\ WF_vars(r \in RunnerIds /\ ChildCat(r))

FairQuietSpec == QuietSpec /\ FairnessQuiet

\* The supervisor constructed with one task that is long-running and never
\* reads its stdin (sleep), or one that cannot be spawned (missing): no child
\* writes or reads anything, and a stdin write that finds the pipe full stays
\* suspended.
StartStopLists ==
    { list \in TaskLists :
        \A i \in 1 .. Len(list) : list[i].command \in {"sleep", "nonexistent"} }

InitStartStop == \E list \in StartStopLists : InitWith(list)

NextStartStop ==
    \/ ListDown
    \/ ListUp
    \/ ListToggle
    \/ ListEnter
    \/ LogEsc
    \/ LogEnter
    \/ LogBackspace
    \/ \E c \in LogChars : LogChar(c)
    \/ Render
    \/ \E r \in RunnerIds : RunnerSpawn(r)
    \/ \E r \in RunnerIds : RunnerWait(r)
    \/ \E r \in RunnerIds : RunnerRecvStdin(r)
    \/ \E r \in RunnerIds : RunnerRecvStop(r)
    \/ \E r \in RunnerIds : PumpEnd(r)

StartStopSpec == InitStartStop /\ [][NextStartStop]_vars

\* The tasks of QuietLists with the write locks at their own grain: a *.write() that
\* has returned and the write under it are two steps, and so are the call of
\* render() and its return.
NextLock ==
    \/ ListDown
    \/ ListUp
    \/ ListToggle
    \/ ListEnter
    \/ LogEsc
    \/ LogEnter
    \/ LogBackspace
    \/ \E c \in LogChars : LogChar(c)
    \/ RenderBegin
    \/ RenderEnd
    \/ \E r \in RunnerIds : RunnerLockStatus(r)
    \/ \E r \in RunnerIds : RunnerSpawn(r)
    \/ \E r \in RunnerIds : RunnerWait(r)
    \/ \E r \in RunnerIds : RunnerRecvStdin(r)
    \/ \E r \in RunnerIds : RunnerWriteResume(r)
    \/ \E r \in RunnerIds : RunnerRecvStop(r)
    \/ \E r \in RunnerIds : PumpLockLogs(r)
    \/ \E r \in RunnerIds : PumpRead(r, "stdout")
    \/ \E r \in RunnerIds : PumpEnd(r)
    \/ \E r \in RunnerIds : ChildCat(r)

LockSpec == InitQuiet /\ [][NextLock]_vars

\* The supervisor constructed with one long-running, autostarted task that
\* never reads its stdin (sleep), and a user who submits one-character stdin
\* lines in a burst and presses the toggle key only to stop the task: the runner takes
\* lines out of its mailbox until the pipe is full, and the mailbox fills up
\* behind the suspended write.
BurstLists == { << Desc("sleep", "sleep", TRUE, None, "Never") >> }

InitBurst == \E list \in BurstLists : InitWith(list)

\* a character typed into the empty input box
FirstChar(c) == input = << >> /\ LogChar(c)

\* the toggle key pressed while the selected task reads Running
StopKey ==
    /\ selected_idx \in 0 .. Len(tasks) - 1
    /\ status[selected_idx + 1].tag = "Running"
    /\ ListToggle

NextBurst ==
    \/ ListDown
    \/ ListUp
    \/ StopKey
    \/ ListEnter
    \/ LogEsc
    \/ LogEnterUpTo(BurstSends)
    \/ LogBackspace
    \/ \E c \in LogChars : FirstChar(c)
    \/ Render
    \/ \E r \in RunnerIds : RunnerSpawn(r)
    \/ \E r \in RunnerIds : RunnerWait(r)
    \/ \E r \in RunnerIds : RunnerRecvStdin(r)
    \/ \E r \in RunnerIds : RunnerRecvStop(r)
    \/ \E r \in RunnerIds : PumpEnd(r)

BurstSpec == InitBurst /\ [][NextBurst]_vars

\* The supervisor constructed with no task at all (no task document, no
\* script), or with three tasks none of which can be spawned.
UiLists ==
    { << >>,
      << Desc("first", "nonexistent", FALSE, None, "Never"),
         Desc("second", "nonexistent", FALSE, None, "Never"),
         Desc("third", "nonexistent", FALSE, None, "Never") >> }

InitUi == \E list \in UiLists : InitWith(list)

NextUi ==
    \/ ListDown
    \/ ListUp
    \/ ListToggle
    \/ ListEnter
    \/ LogEsc
    \/ LogEnter
    \/ LogBackspace
    \/ \E c \in LogChars : LogChar(c)
    \/ LogUp
    \/ LogDown
    \/ Render
    \/ \E r \in RunnerIds : RunnerSpawn(r)

UiSpec == InitUi /\ [][NextUi]_vars

\* The supervisor constructed with one autostarted task whose child writes
\* nothing and ends on its own: with exit code 0 (true), with exit code 1
\* (false), or killed by a signal (crash).  The user presses the toggle key
\* only to stop the task.
ExitLists ==
    { << Desc("true", "true", TRUE, Some(1), "Never") >>,
      << Desc("false", "false", TRUE, None, "Always") >>,
      << Desc("crash", "crash", TRUE, None, "Warn") >> }

InitExit == \E list \in ExitLists : InitWith(list)

NextExit ==
    \/ ListDown
    \/ ListUp
    \/ StopKey
    \/ ListEnter
    \/ LogEsc
    \/ LogEnter
    \/ LogBackspace
    \/ \E c \in LogChars : LogChar(c)
    \/ Render
    \/ \E r \in RunnerIds : RunnerSpawn(r)
    \/ \E r \in RunnerIds : RunnerWait(r)
    \/ \E r \in RunnerIds : RunnerRecvStdin(r)
    \/ \E r \in RunnerIds : RunnerWriteResume(r)
    \/ \E r \in RunnerIds : RunnerRecvStop(r)
    \/ \E r \in RunnerIds : PumpEnd(r)
    \/ \E r \in RunnerIds : ChildStep(r)

ExitSpec == InitExit /\ [][NextExit]_vars

\* the scheduling of the runtime for the steps of NextExit: a runner, pump or
\* child that can take a step eventually takes it; the user may stop
\* pressing keys
FairnessExit ==
    \A r \in 1 .. MaxRunners :
        /\ WF_vars(r \in RunnerIds /\ RunnerSpawn(r))
        /\ WF_vars(r \in RunnerIds /\ RunnerWait(r))
        /\ WF_vars(r \in RunnerIds /\ RunnerRecvStdin(r))
        /\ WF_vars(r \in RunnerIds /\ RunnerWriteResume(r))
        /\ WF_vars(r \in RunnerIds /\ RunnerRecvStop(r))
        /\ WF_vars(r \in RunnerIds /\ PumpEnd(r))
        /\ WF_vars(r \in RunnerIds /\ ChildStep(r))

FairExitSpec == ExitSpec /\ FairnessExit

\* The supervisor constructed with two autostarted tasks: the first has a
\* child that fails on its own (exit code 1, or killed by a signal), the
\* second cannot be spawned.  The user presses the toggle key only to stop a
\* task, and also scrolls the Log view.
PairLists ==
    { << Desc("false", "false", TRUE, None, "Always"),
         Desc("missing", "nonexistent", TRUE, None, "Warn") >>,
      << Desc("crash", "crash", TRUE, None, "Never"),
         Desc("missing", "nonexistent", TRUE, None, "Warn") >> }

InitPair == \E list \in PairLists : InitWith(list)

NextPair ==
    \/ ListDown
    \/ ListUp
    \/ StopKey
    \/ ListEnter
    \/ LogEsc
    \/ LogEnter
    \/ LogBackspace
    \/ \E c \in LogChars : LogChar(c)
    \/ LogUp
    \/ LogDown
    \/ Render
    \/ \E r \in RunnerIds : RunnerSpawn(r)
    \/ \E r \in RunnerIds : RunnerWait(r)
    \/ \E r \in RunnerIds : RunnerRecvStdin(r)
    \/ \E r \in RunnerIds : RunnerWriteResume(r)
    \/ \E r \in RunnerIds : RunnerRecvStop(r)
    \/ \E r \in RunnerIds : PumpEnd(r)
    \/ \E r \in RunnerIds : ChildStep(r)

PairSpec == InitPair /\ [][NextPair]_vars

\* The supervisor constructed with one autostarted task whose child writes
\* to both of its output streams in turn (chatty).  The user presses the
\* toggle key only to stop the task and submits one-character stdin lines.
StreamLists == { << Desc("chatty", "chatty", TRUE, None, "Never") >> }

InitStream == \E list \in StreamLists : InitWith(list)

NextStream ==
    \/ ListDown
    \/ ListUp
    \/ StopKey
    \/ ListEnter
    \/ LogEsc
    \/ LogEnter
    \/ LogBackspace
    \/ \E c \in LogChars : FirstChar(c)
    \/ Render
    \/ \E r \in RunnerIds : RunnerSpawn(r)
    \/ \E r \in RunnerIds : RunnerWait(r)
    \/ \E r \in RunnerIds : RunnerRecvStdin(r)
    \/ \E r \in RunnerIds : RunnerWriteResume(r)
    \/ \E r \in RunnerIds : RunnerRecvStop(r)
    \/ \E r \in RunnerIds, stream \in {"stdout", "stderr"} : PumpRead(r, stream)
    \/ \E r \in RunnerIds : PumpEnd(r)
    \/ \E r \in RunnerIds : ChildStep(r)

StreamSpec == InitStream /\ [][NextStream]_vars

\* the scheduling of the runtime for the steps of NextStream: a runner, pump
\* or child that can take a step eventually takes it; the user may stop
\* pressing keys
FairnessStream ==
    \A r \in 1 .. MaxRunners :
        /\ WF_vars(r \in RunnerIds /\ RunnerSpawn(r))
        /\ WF_vars(r \in RunnerIds /\ RunnerWait(r))
        /\ WF_vars(r \in RunnerIds /\ RunnerRecvStdin(r))
        /\ WF_vars(r \in RunnerIds /\ RunnerWriteResume(r))
        /\ WF_vars(r \in RunnerIds /\ RunnerRecvStop(r))
        /\ WF_vars(r \in RunnerIds /\ PumpRead(r, "stdout"))
        /\ WF_vars(r \in RunnerIds /\ PumpRead(r, "stderr"))
        /\ WF_vars(r \in RunnerIds /\ PumpEnd(r))
        /\ WF_vars(r \in RunnerIds /\ ChildStep(r))

\* The supervisor constructed with one autostarted task whose child writes
\* one line and ends on its own: a stdout line and exit code 0 (echo), or a
\* stderr line and exit code 1 (fail).  The keys are those of NextStream.
OutputLists ==
    { << Desc("echo", "echo", TRUE, None, "Never") >>,
      << Desc("fail", "fail", TRUE, None, "Never") >> }

InitOutput == \E list \in OutputLists : InitWith(list)

OutputSpec == InitOutput /\ [][NextStream]_vars

FairOutputSpec == OutputSpec /\ FairnessStream

\* The supervisor constructed with one task, not autostarted, whose child
\* writes one stdout line and ends (echo).  The user stays in the List view
\* and starts the task, stops it, and starts it again.
RerunLists == { << Desc("echo", "echo", FALSE, None, "Never") >> }

InitRerun == \E list \in RerunLists : InitWith(list)

NextRerun ==
    \/ ListToggle
    \/ Render
    \/ \E r \in RunnerIds : RunnerSpawn(r)
    \/ \E r \in RunnerIds : RunnerWait(r)
    \/ \E r \in RunnerIds : RunnerRecvStop(r)
    \/ \E r \in RunnerIds, stream \in {"stdout", "stderr"} : PumpRead(r, stream)
    \/ \E r \in RunnerIds : PumpEnd(r)
    \/ \E r \in RunnerIds : ChildStep(r)

RerunSpec == InitRerun /\ [][NextRerun]_vars

\* The supervisor constructed with a long-running autostarted task (sleep)
\* and a second task that is never started.  The user presses the toggle
\* key only to stop a task, submits one-character stdin lines, and scrolls
\* the Log view near both ends of its range.
ScrollLists ==
    { << Desc("sleep", "sleep", TRUE, None, "Never"),
         Desc("missing", "nonexistent", FALSE, None, "Never") >> }

InitScroll == \E list \in ScrollLists : InitWith(list)

NextScroll ==
    \/ ListDown
    \/ ListUp
    \/ StopKey
    \/ ListEnter
    \/ LogEsc
    \/ LogEnterUpTo(1)
    \/ LogBackspace
    \/ \E c \in LogChars : FirstChar(c)
    \/ ScrollUp
    \/ ScrollDown
    \/ ScrollDownHeld
    \/ Render
    \/ \E r \in RunnerIds : RunnerSpawn(r)
    \/ \E r \in RunnerIds : RunnerWait(r)
    \/ \E r \in RunnerIds : RunnerRecvStdin(r)
    \/ \E r \in RunnerIds : RunnerRecvStop(r)
    \/ \E r \in RunnerIds : PumpEnd(r)

ScrollSpec == InitScroll /\ [][NextScroll]_vars

\* the characters that are keys of the List view
ListKeyChars == {"x", "j", "k"}

\* The supervisor constructed as for ScrollSpec.  The user presses the
\* toggle key only to stop a task, composes input lines out of the
\* characters that are keys of the List view, submits one of them, and
\* scrolls the Log view.
NextKeys ==
    \/ ListDown
    \/ ListUp
    \/ StopKey
    \/ ListEnter
    \/ LogEsc
    \/ LogEnterUpTo(1)
    \/ LogBackspace
    \/ \E c \in ListKeyChars : LogChar(c)
    \/ LogUp
    \/ LogDown
    \/ Render
    \/ \E r \in RunnerIds : RunnerSpawn(r)
    \/ \E r \in RunnerIds : RunnerWait(r)
    \/ \E r \in RunnerIds : RunnerRecvStdin(r)
    \/ \E r \in RunnerIds : RunnerRecvStop(r)
    \/ \E r \in RunnerIds : PumpEnd(r)

KeysSpec == InitScroll /\ [][NextKeys]_vars

\* The supervisor of OutputLists or StreamLists inside the host loop: the
\* host takes keys and resize events, calls update() on its two ticks, and
\* draws on a frame tick.  The user switches between the two views.
InitHost ==
    \E list \in OutputLists \cup StreamLists : InitHosted(DocumentOnly(list))

NextHost ==
    \/ ListEnter
    \/ LogEsc
    \/ Resize
    \/ StatusTick
    \/ BackgroundTick
    \/ FrameTick
    \/ FrameDrawn
    \/ \E r \in RunnerIds : RunnerSpawn(r)
    \/ \E r \in RunnerIds : RunnerWait(r)
    \/ \E r \in RunnerIds, stream \in {"stdout", "stderr"} : PumpRead(r, stream)
    \/ \E r \in RunnerIds : PumpEnd(r)
    \/ \E r \in RunnerIds : ChildStep(r)

HostSpec == InitHost /\ [][NextHost]_vars

\* the timers of the host fire, and select!, which picks at random among
\* the arms that are ready each time the loop comes round, takes every arm
\* that is ready again and again; a draw that has begun ends
FairnessHost ==
    /\ SF_vars(StatusTick)
    /\ SF_vars(FrameTick)
    /\ WF_vars(FrameDrawn)

FairHostSpec == HostSpec /\ FairnessHost

\* The supervisor constructed from what is on disk: the task document is
\* missing, malformed (with a task written in it) or declares two tasks, one
\* of them autostarted; the scripts directory cannot be read, is empty, or
\* holds a script, a text file and a directory named like a script.  The
\* user presses the toggle key only to stop a task.
Documents ==
    { None,
      Some(EmptyText),
      Some(Text(FALSE, << Desc("sleep", "sleep", TRUE, None, "Never") >>)),
      Some(Text(TRUE, << Desc("sleep", "sleep", TRUE, None, "Never"),
                         Desc("missing", "nonexistent", FALSE, None, "Warn") >>)) }

ScriptDirs ==
    { None,
      Some(<< >>),
      Some(<< Entry("job", "ts", TRUE) >>),
      Some(<< Entry("notes", "txt", TRUE), Entry("lib", "ts", FALSE),
              Entry("job", "ts", TRUE) >>) }

InitLoad == \E document \in Documents, scripts \in ScriptDirs :
                InitFiles(Files(document, scripts))

NextLoad ==
    \/ ListDown
    \/ ListUp
    \/ StopKey
    \/ ListEnter
    \/ LogEsc
    \/ LogEnter
    \/ LogBackspace
    \/ \E c \in LogChars : LogChar(c)
    \/ Render
    \/ \E r \in RunnerIds : RunnerSpawn(r)
    \/ \E r \in RunnerIds : RunnerWait(r)
    \/ \E r \in RunnerIds : RunnerRecvStdin(r)
    \/ \E r \in RunnerIds : RunnerRecvStop(r)
    \/ \E r \in RunnerIds : PumpEnd(r)

LoadSpec == InitLoad /\ [][NextLoad]_vars

(* ------------------------------------------------------------------ *)
(* Notions the claims use                                              *)
(* ------------------------------------------------------------------ *)

Range(s) == { s[i] : i \in 1 .. Len(s) }

\* the last n elements of s
LastN(s, n) == IF Len(s) <= n THEN s ELSE SubSeq(s, Len(s) - n + 1, Len(s))

\* the capacity a task without log_limit is specified to have
DEFAULT_LOG_LIMIT == 1000

\* the configured capacity of task t's LogBuffer
Capacity(t) ==
    IF tasks[t].log_limit = None THEN DEFAULT_LOG_LIMIT ELSE tasks[t].log_limit[1]

RunnersOf(t) == { r \in RunnerIds : runners[r].task = t }

\* the texts the input box can hold when Enter submits it
Texts == UNION { [1 .. n -> LogChars] : n \in 1 .. MaxInput }

HiLine == << "h", "i" >>

(* ------------------------------------------------------------------ *)
(* C1                                                                  *)
(* ------------------------------------------------------------------ *)

\* C1: in every reachable state the LogBuffer of every task holds at most
\* as many lines as the task's configured capacity (log_limit, or 1000).
C1_LogWithinCapacity ==
    \A t \in TaskIds : Len(logs[t]) <= Capacity(t)

(* ------------------------------------------------------------------ *)
(* C2                                                                  *)
(* ------------------------------------------------------------------ *)

\* C2: no step changes a task's status from Failed to Running, or from
\* Running to another Running.
C2_StatusTransitions ==
    [][ \A t \in TaskIds :
          /\ ~ (status[t].tag = "Failed" /\ status'[t].tag = "Running")
          /\ ~ (status[t].tag = "Running" /\ status'[t].tag = "Running"
                /\ status'[t] # status[t]) ]_vars

(* ------------------------------------------------------------------ *)
(* C3                                                                  *)
(* ------------------------------------------------------------------ *)

\* C3: a task never has more than one live ProcessRunner, nor more than one
\* live child process.
C3_OneRunnerPerTask ==
    \A t \in TaskIds :
        /\ Cardinality({ r \in RunnersOf(t) : Live(r) }) <= 1
        /\ Cardinality({ r \in RunnersOf(t) : ChildAlive(r) }) <= 1

(* ------------------------------------------------------------------ *)
(* C4                                                                  *)
(* ------------------------------------------------------------------ *)

\* C4: a long-running task (sleep) is never Failed, and once a Stop sent by
\* the toggle key is in the mailbox of one of its runners, the task
\* eventually is Stopped with none of its child processes alive.
C4_StopResolvesToStopped ==
    /\ [](\A t \in TaskIds :
            tasks[t].command = "sleep" => status[t].tag # "Failed")
    /\ \A r \in 1 .. MaxRunners :
          (r \in RunnerIds /\ Cmd(r) = "sleep" /\ Stop \in Range(runners[r].rx))
          ~> (r \in RunnerIds /\ status[runners[r].task].tag = "Stopped"
              /\ \A q \in RunnersOf(runners[r].task) : ~ ChildAlive(q))

(* ------------------------------------------------------------------ *)
(* C6                                                                  *)
(* ------------------------------------------------------------------ *)

\* C6: the task running sh -c "echo hi" is never Failed, and every run of it
\* whose child exited with code 0 and whose runner and pump have ended has
\* put the line hi into the LogBuffer.
C6_EchoLineLogged ==
    \A r \in RunnerIds :
        Cmd(r) = "echo" =>
            /\ status[runners[r].task].tag # "Failed"
            /\ (runners[r].pc = "done" /\ runners[r].pump = "done"
                 /\ runners[r].exit = "0")
               => HiLine \in Range(pushed[runners[r].task])

(* ------------------------------------------------------------------ *)
(* C7                                                                  *)
(* ------------------------------------------------------------------ *)

\* C7: once more lines than the configured capacity have been appended to a
\* task's LogBuffer, the buffer holds exactly the last capacity-many lines
\* appended, in append order.
C7_KeepsLastLines ==
    \A t \in TaskIds :
        Len(pushed[t]) > Capacity(t) => logs[t] = LastN(pushed[t], Capacity(t))

(* ------------------------------------------------------------------ *)
(* C10                                                                 *)
(* ------------------------------------------------------------------ *)

\* C10: once a Stop is in the mailbox of the runner of a Running task, that
\* runner's child is eventually dead and the status eventually is not
\* Running; and an exited child is eventually waited for by its runner.
C10_NeitherWaitStarves ==
    \A r \in 1 .. MaxRunners :
        /\ (r \in RunnerIds /\ runners[r].pc \in {"loop", "write"}
            /\ status[runners[r].task].tag = "Running"
            /\ Stop \in Range(runners[r].rx))
           ~> (r \in RunnerIds /\ ~ ChildAlive(r)
               /\ status[runners[r].task].tag # "Running")
        /\ (r \in RunnerIds /\ runners[r].child = "zombie")
           ~> (r \in RunnerIds /\ runners[r].pc = "done")

(* ------------------------------------------------------------------ *)
(* C5                                                                  *)
(* ------------------------------------------------------------------ *)

\* a runner whose cmd.spawn() failed: it has ended without ever having a child
SpawnFailedRun(run) == run.pc = "done" /\ run.child = "none"

\* C5: the step in which a runner's spawn fails writes Failed(reason) to the
\* task's status and ends the runner with neither a child nor an I/O pump;
\* that is the run's only step, so the run writes Running at no point; and a
\* task whose command cannot be spawned is never Running.
C5_SpawnFailure ==
    /\ [][ \A r \in RunnerIds :
              (runners[r].pc = "spawn" /\ SpawnFails(Cmd(r)) /\ runners'[r].pc # "spawn")
              => /\ status'[runners[r].task].tag = "Failed"
                 /\ status'[runners[r].task].reason # << >>
                 /\ runners'[r] = [runners[r] EXCEPT !.pc = "done", !.rx = << >>] ]_vars
    /\ [](\A r \in RunnerIds :
             SpawnFailedRun(runners[r]) =>
                 /\ runners[r].pump = "none"
                 /\ runners[r].rx = << >> /\ runners[r].stdin = << >>)
    /\ [](\A t \in TaskIds :
             SpawnFails(tasks[t].command) => status[t].tag # "Running")

\* a run whose spawn failed has ended and the task shows Failed
C5_Witness ==
    \E r \in RunnerIds :
        /\ SpawnFailedRun(runners[r])
        /\ status[runners[r].task].tag = "Failed"

(* ------------------------------------------------------------------ *)
(* C8                                                                  *)
(* ------------------------------------------------------------------ *)

\* Stdin(text) waits in the mailbox of runner r of a Running cat task, whose
\* log does not hold text as a child output line yet
StdinSent(r, text) ==
    /\ r \in RunnerIds
    /\ Cmd(r) = "cat"
    /\ status[runners[r].task].tag = "Running"
    /\ Stdin(text) \in Range(runners[r].rx)
    /\ text \notin Range(logs[runners[r].task])

\* C8 as stated: a text sent to a Running cat task eventually is a line of
\* the task's LogBuffer.
C8_StdinEchoed ==
    \A r \in 1 .. MaxRunners, text \in Texts :
        StdinSent(r, text) ~> (r \in RunnerIds /\ text \in Range(logs[runners[r].task]))

\* C8 amended: a Stdin(text) the runner takes from its mailbox is written to
\* the child's stdin as text followed by the line terminator (when the pipe
\* has room), and a text sent to a Running cat task eventually is a line of
\* the task's LogBuffer unless that run processes a Stop first.
C8_StdinEchoedUnlessStopped ==
    /\ [][ \A r \in RunnerIds :
              ( /\ runners[r].pc = "loop" /\ runners[r].rx # << >>
                /\ runners'[r].rx = Tail(runners[r].rx)
                /\ Head(runners[r].rx).type = "Stdin"
                /\ ChildAlive(r) /\ Len(runners[r].stdin) < PipeCap )
              => runners'[r].stdin =
                     Append(runners[r].stdin, Head(runners[r].rx).text \o << NL >>) ]_vars
    /\ \A r \in 1 .. MaxRunners, text \in Texts :
          StdinSent(r, text)
          ~> (r \in RunnerIds
              /\ (text \in Range(logs[runners[r].task]) \/ runners[r].is_manual_stop))

\* the text typed for a cat task is in its log twice: as the local echo and,
\* after it, as the line the child wrote back
C8_Witness ==
    \E t \in TaskIds, text \in Texts :
        /\ tasks[t].command = "cat"
        /\ \E i, j \in 1 .. Len(logs[t]) :
              i < j /\ logs[t][i] = EchoLine(text) /\ logs[t][j] = text

(* ------------------------------------------------------------------ *)
(* C9                                                                  *)
(* ------------------------------------------------------------------ *)

\* the toggle key acts on the selected task while its status is Stopped
ToggleOnStopped ==
    /\ selected_idx < Len(tasks)
    /\ status[selected_idx + 1].tag = "Stopped"
    /\ ListToggle

\* C9 as stated: the stop request (the toggle key) on a Stopped task changes
\* nothing: not the status, not a mailbox, not the sender, not the runners.
C9_StopOnStoppedNoOp ==
    [][ ToggleOnStopped => UNCHANGED << status, control_tx, runners >> ]_vars

\* C9 amended: the toggle key on a Stopped task leaves the status as it is
\* and puts no message into any mailbox; it spawns one new runner and
\* records the sender of that runner's new, empty channel.
C9_ToggleOnStoppedStarts ==
    [][ ToggleOnStopped =>
          /\ status' = status
          /\ Len(runners') = Len(runners) + 1
          /\ \A r \in RunnerIds : runners'[r] = runners[r]
          /\ runners'[Len(runners')] = NewRunner(selected_idx + 1)
          /\ control_tx' = [control_tx EXCEPT ![selected_idx + 1] = Some(Len(runners'))] ]_vars

\* the toggle key was pressed on a Stopped task whose previous run has ended:
\* a second runner waits to spawn while the status still is Stopped
C9_Witness ==
    \E r \in RunnerIds :
        /\ r > 1
        /\ runners[r].pc = "spawn"
        /\ status[runners[r].task].tag = "Stopped"
        /\ \A q \in RunnersOf(runners[r].task) \ {r} : ~ Live(q)

(* ------------------------------------------------------------------ *)
(* C11                                                                 *)
(* ------------------------------------------------------------------ *)

\* runner r ends in this step and leaves its task Failed
EndsFailed(r) ==
    /\ runners[r].pc # "done"
    /\ runners'[r].pc = "done"
    /\ status'[runners[r].task].tag = "Failed"

\* the key the current view always accepts is handled
HandlesKeys ==
    /\ ~ panicked
    /\ view_mode = "List" => ENABLED ListEnter
    /\ view_mode = "Log" => ENABLED LogEsc

\* C11: the step in which a run fails (spawn failure, non-zero exit, or
\* death by a signal) changes the StatusCell of its own task and nothing
\* else of the supervisor: no other status, no log, no control sender, not
\* selected_idx, view_mode, input or log_scroll; and while a task is Failed
\* the supervisor has not panicked and handles keys.
C11_FailureConfined ==
    /\ [][ \A r \in RunnerIds :
              EndsFailed(r) =>
                 /\ \A u \in TaskIds \ { runners[r].task } : status'[u] = status[u]
                 /\ logs' = logs
                 /\ control_tx' = control_tx
                 /\ UNCHANGED << selected_idx, view_mode, input, log_scroll >>
                 /\ panicked' = panicked ]_vars
    /\ []((\E t \in TaskIds : status[t].tag = "Failed") => HandlesKeys)

\* a run has failed by its exit status while the user was typing in a
\* scrolled Log view and the other task had been started
C11_Witness ==
    \E r \in RunnerIds :
        /\ runners[r].pc = "done"
        /\ runners[r].exit \in {"1", "signal"}
        /\ ~ runners[r].is_manual_stop
        /\ status[runners[r].task].tag = "Failed"
        /\ \E u \in TaskIds \ { runners[r].task } : control_tx[u] # None
        /\ view_mode = "Log" /\ input # << >> /\ log_scroll > 0

(* ------------------------------------------------------------------ *)
(* C13                                                                 *)
(* ------------------------------------------------------------------ *)

\* C13: whenever no runner of a task is live, the task's control sender is
\* None.
C13_SenderNoneWithoutRunner ==
    \A t \in TaskIds :
        (\A r \in RunnersOf(t) : ~ Live(r)) => control_tx[t] = None

(* ------------------------------------------------------------------ *)
(* C14                                                                 *)
(* ------------------------------------------------------------------ *)

\* C14: every change of a status and every append to a log is eventually
\* followed by a "rend" event sent on the bus.
C14_ChangesPublished == unpublished ~> ~ unpublished

(* ------------------------------------------------------------------ *)
(* C16                                                                 *)
(* ------------------------------------------------------------------ *)

\* the reason string of a run that failed by its exit status
ExitReason(exit) ==
    << "Exit Code: ", IF exit = "signal" THEN "Killed by signal" ELSE exit >>

C17_StartOrStopFrame ==
    [][ (ListToggle /\ selected_idx \in 0 .. Len(tasks) - 1) =>
          LET t == selected_idx + 1 IN
          IF status[t].tag = "Running"
          THEN /\ status' = status
               /\ control_tx' = control_tx
               /\ Len(runners') = Len(runners)
               /\ \A r \in RunnerIds :
                     runners'[r] =
                        IF control_tx[t] = Some(r) /\ Live(r)
                           /\ Len(runners[r].rx) < CHANNEL_CAP
                        THEN [runners[r] EXCEPT !.rx = Append(@, Stop)]
                        ELSE runners[r]
          ELSE /\ status' = status
               /\ Len(runners') = Len(runners) + 1
               /\ \A r \in RunnerIds : runners'[r] = runners[r]
               /\ runners'[Len(runners')] = NewRunner(t)
               /\ control_tx' = [control_tx EXCEPT ![t] = Some(Len(runners'))] ]_vars

\* the toggle key was pressed on a Running task whose channel is gone: the
\* runner its sender feeds has ended, and a "rend" event followed the write
\* of Running
C17_Witness ==
    \E t \in TaskIds :
        /\ tasks[t].command = "sleep"
        /\ status[t].tag = "Running"
        /\ control_tx[t] # None
        /\ ~ Live(control_tx[t][1])
        /\ ~ unpublished

(* ------------------------------------------------------------------ *)
(* C18                                                                 *)
(* ------------------------------------------------------------------ *)

\* a step of the supervisor's side: a key handler or render
UiStep ==
    \/ ListDown \/ ListUp \/ ListToggle \/ ListEnter
    \/ LogEsc \/ LogEnter \/ LogBackspace \/ (\E c \in LogChars : LogChar(c))
    \/ LogUp \/ LogDown \/ Render

\* C18: no step of the supervisor's side changes a StatusCell; a step that
\* changes one is the spawn step or the final step of a runner, and changes
\* the cell of that runner's task only.
C18_OnlyRunnersWriteStatus ==
    [][ /\ UiStep => status' = status
        /\ status' # status =>
              \E r \in RunnerIds :
                 /\ RunnerSpawn(r) \/ RunnerWait(r)
                 /\ \A u \in TaskIds \ { runners[r].task } : status'[u] = status[u] ]_vars

\* the Stop the toggle key requested has been processed by the runner, which
\* has not written the final status yet: the task still reads Running
C18_Witness ==
    \E r \in RunnerIds :
        /\ runners[r].pc = "loop"
        /\ runners[r].is_manual_stop
        /\ status[runners[r].task] = Running(r)

(* ------------------------------------------------------------------ *)
(* C12                                                                 *)
(* ------------------------------------------------------------------ *)

\* the toggle key sends Stop through the sender that feeds runner r
SendsStop(r) ==
    /\ selected_idx \in 0 .. Len(tasks) - 1
    /\ status[selected_idx + 1].tag = "Running"
    /\ control_tx[selected_idx + 1] = Some(r)
    /\ ListToggle

\* Enter sends Stdin(input) through the sender that feeds runner r
SendsStdin(r) ==
    /\ input # << >>
    /\ selected_idx \in 0 .. Len(tasks) - 1
    /\ control_tx[selected_idx + 1] = Some(r)
    /\ LogEnterUpTo(BurstSends)

\* what try_send(msg) is specified to leave in the mailbox of runner r
AfterSend(r, msg) ==
    IF Live(r) /\ Len(runners[r].rx) < CHANNEL_CAP
    THEN Append(runners[r].rx, msg)
    ELSE runners[r].rx

MailboxFull(r) == Live(r) /\ Len(runners[r].rx) = CHANNEL_CAP

\* C12: no mailbox ever holds more than 32 messages; a Stop or Stdin sent
\* to a mailbox with room is appended to it; sent to a full mailbox it is
\* dropped, the mailbox keeps its messages in their order, and the handler
\* completes (Enter clears the input, nothing panics); and the toggle key is
\* handled at once while the mailbox of the Running task is full.
C12_FullMailboxDropsNewest ==
    /\ [](\A r \in RunnerIds : Len(runners[r].rx) <= CHANNEL_CAP)
    /\ [][ \A r \in RunnerIds :
              /\ SendsStop(r) =>
                    /\ runners'[r].rx = AfterSend(r, Stop)
                    /\ ~ panicked'
              /\ SendsStdin(r) =>
                    /\ runners'[r].rx = AfterSend(r, Stdin(input))
                    /\ input' = << >>
                    /\ ~ panicked' ]_vars
    /\ [](\A r \in RunnerIds :
             ( /\ MailboxFull(r)
               /\ view_mode = "List"
               /\ status[runners[r].task].tag = "Running"
               /\ control_tx[runners[r].task] = Some(r)
               /\ selected_idx + 1 = runners[r].task
               /\ StopsQueued(runners[r].task) = 0 )
             => ENABLED ListToggle)

\* the mailbox of the only runner is full and the user has submitted more
\* lines than the mailbox holds and the runner has taken out: one was dropped
C12_Witness ==
    /\ Len(runners) = 1
    /\ MailboxFull(1)
    /\ nSends > CHANNEL_CAP + Len(runners[1].stdin)
                + (IF runners[1].pc = "write" THEN 1 ELSE 0)

(* ------------------------------------------------------------------ *)
(* C15                                                                 *)
(* ------------------------------------------------------------------ *)

\* C15: render() never waits for a lock: it is never inside a frame with a
\* StatusCell or LogBuffer it has to read write-locked by a runner or pump.
C15_RenderNeverWaits == ~ (rendering /\ RenderWaits)

(* ------------------------------------------------------------------ *)
(* C19                                                                 *)
(* ------------------------------------------------------------------ *)

\* C19: view_mode is List after construction and always List or Log; a step
\* changes it only as Enter in List mode (to Log) or as Esc in Log mode (to
\* List); Esc also empties the input; every other key leaves view_mode.
C19_ViewModeTransitions ==
    /\ view_mode = "List"
    /\ [](view_mode \in {"List", "Log"})
    /\ [][ /\ view_mode' # view_mode =>
                 \/ view_mode = "List" /\ view_mode' = "Log" /\ ListEnter
                 \/ view_mode = "Log" /\ view_mode' = "List" /\ LogEsc
           /\ ListEnter => view_mode' = "Log"
           /\ LogEsc => view_mode' = "List" /\ input' = << >>
           /\ ( \/ ListDown \/ ListUp \/ ListToggle
                \/ LogEnter \/ LogBackspace \/ (\E c \in LogChars : LogChar(c))
                \/ LogUp \/ LogDown \/ Render )
              => view_mode' = view_mode ]_vars

\* back in List mode after the Log view was scrolled: Enter, Down and Esc
\* have been handled, and the input is empty
C19_Witness ==
    /\ view_mode = "List"
    /\ log_scroll > 0
    /\ input = << >>
    /\ ~ panicked

(* ------------------------------------------------------------------ *)
(* C20                                                                 *)
(* ------------------------------------------------------------------ *)

\* Down or Up is handled with a task list that is not empty
DownKey == Len(tasks) > 0 /\ ListDown
UpKey == Len(tasks) > 0 /\ ListUp

\* the wrap-around arithmetic of the selection
WrapsAround ==
    /\ DownKey => selected_idx' = (selected_idx + 1) % Len(tasks)
    /\ UpKey => selected_idx' = (selected_idx + Len(tasks) - 1) % Len(tasks)

\* C20 as stated: with n > 0 tasks Down selects (selected + 1) mod n and Up
\* (selected - 1) mod n, and selected_idx is an index of the task list in
\* every reachable state.
C20_SelectionAlwaysValid ==
    /\ [][WrapsAround]_vars
    /\ [](selected_idx \in 0 .. Len(tasks) - 1)

\* C20 amended: with n > 0 tasks Down selects (selected + 1) mod n and Up
\* (selected - 1) mod n, and selected_idx is an index of the task list
\* whenever the list is not empty.
C20_SelectionValidIfTasks ==
    /\ [][WrapsAround]_vars
    /\ [](Len(tasks) > 0 => selected_idx \in 0 .. Len(tasks) - 1)

\* the last of three tasks is selected: Up has wrapped around from the first
\* task, or Down has moved there
C20_Witness ==
    /\ Len(tasks) = 3
    /\ selected_idx = Len(tasks) - 1
    /\ view_mode = "List"

(* ------------------------------------------------------------------ *)
(* C21                                                                 *)
(* ------------------------------------------------------------------ *)

\* Enter in Log mode submits a composed (non-empty) buffer for a selected task
EnterSubmits ==
    /\ input # << >>
    /\ selected_idx \in 0 .. Len(tasks) - 1
    /\ LogEnter

\* C21: Enter in Log mode leaves the input empty; with a composed buffer and
\* the selected task Running it appends Stdin(buffer) to the mailbox of one
\* runner of that task and changes no other mailbox, and appends the echo of
\* the buffer to that task's LogBuffer; with the selected task not Running it
\* puts no message into any mailbox.
C21_EnterSendsIfRunning ==
    [][ /\ LogEnter => input' = << >>
        /\ EnterSubmits =>
              LET t == selected_idx + 1 IN
              IF status[t].tag = "Running"
              THEN /\ \E r \in RunnersOf(t) :
                         runners' = [runners EXCEPT ![r].rx = Append(@, Stdin(input))]
                   /\ logs' = [logs EXCEPT ![t] = Append(@, EchoLine(input))]
              ELSE runners' = runners ]_vars

(* ------------------------------------------------------------------ *)
(* C22                                                                 *)
(* ------------------------------------------------------------------ *)

\* C22: in the state construction leaves, every descriptor has a runtime
\* with status Stopped and an empty log; a descriptor with autostart has
\* exactly one runner, not yet run, and the sender of that runner's channel;
\* a descriptor without autostart has no runner and no sender.  The runtimes
\* stay one per descriptor.
C22_ConstructionAutoStarts ==
    /\ \A t \in TaskIds :
          /\ status[t] = Stopped
          /\ logs[t] = << >>
          /\ Cardinality(RunnersOf(t)) = (IF tasks[t].autostart THEN 1 ELSE 0)
          /\ \A r \in RunnersOf(t) :
                runners[r] = NewRunner(t) /\ control_tx[t] = Some(r)
          /\ ~ tasks[t].autostart => control_tx[t] = None
    /\ \A r \in RunnerIds : runners[r].task \in TaskIds
    /\ [](/\ DOMAIN status = TaskIds
          /\ DOMAIN logs = TaskIds
          /\ DOMAIN control_tx = TaskIds)

\* construction has started the autostart task of a list that also holds
\* tasks without autostart, and nothing has run yet
C22_Witness ==
    /\ \E t \in TaskIds : tasks[t].autostart /\ control_tx[t] # None
    /\ \E t \in TaskIds : ~ tasks[t].autostart /\ control_tx[t] = None
    /\ Len(runners) = 1
    /\ runners[1].pc = "spawn"

(* ------------------------------------------------------------------ *)
(* C25                                                                 *)
(* ------------------------------------------------------------------ *)

\* there is no task document, or serde_json does not accept it
BadDocument ==
    files.document = None \/ ~ files.document[1].wellformed

\* the script files of the scripts directory: the positions of the entries
\* that are files with the extension ts
ScriptFiles ==
    IF files.scripts = None THEN {}
    ELSE { i \in 1 .. Len(files.scripts[1]) :
              files.scripts[1][i].is_file /\ files.scripts[1][i].ext = "ts" }

\* C25: when the task document is missing or does not parse, construction
\* succeeds and the task list is made of the discovered scripts alone: one
\* task per script file, each a deno task without autostart and with restart
\* policy Never, and no task from the document.
C25_BadDocumentLeavesScripts ==
    [](BadDocument =>
          /\ Len(tasks) = Cardinality(ScriptFiles)
          /\ \A t \in TaskIds :
                /\ tasks[t].command = "deno"
                /\ ~ tasks[t].autostart
                /\ tasks[t].restart_policy = "Never"
                /\ \E i \in ScriptFiles :
                      tasks[t].id = "deno_" \o files.scripts[1][i].stem
          /\ DOMAIN status = TaskIds)

\* the supervisor was constructed from a malformed document with a task
\* written in it and a directory with one script among other entries, and is
\* showing the Log view of the script's task
C25_Witness ==
    /\ files.document # None
    /\ ~ files.document[1].wellformed
    /\ files.document[1].descs # << >>
    /\ files.scripts # None
    /\ Len(files.scripts[1]) > 1
    /\ Len(tasks) = 1
    /\ view_mode = "Log"

(* ------------------------------------------------------------------ *)
(* C23, C24                                                            *)
(* ------------------------------------------------------------------ *)

\* the run of runner r of a task with the given restart policy has resolved
\* to Failed by the exit of its child, not through a manual stop
ResolvedFailed(r, policy) ==
    /\ r \in RunnerIds
    /\ tasks[runners[r].task].restart_policy = policy
    /\ runners[r].pc = "done"
    /\ runners[r].exit \in {"1", "signal"}
    /\ ~ runners[r].is_manual_stop
    /\ status[runners[r].task].tag = "Failed"

\* C23: once a run of a task with restart policy Always has resolved to
\* Failed, a later runner of the same task eventually exists and spawns the
\* command again, with no key pressed to start it.
C23_AlwaysRestarts ==
    \A r \in 1 .. MaxRunners :
        ResolvedFailed(r, "Always")
        ~> (\E q \in RunnerIds : q > r /\ runners[q].task = runners[r].task)

\* C24: once a run of a task with restart policy Warn has resolved to
\* Failed, an event other than the redraw request "rend" is eventually sent
\* on the event bus; and the task is not started again.
C24_WarnNotifies ==
    /\ \A r \in 1 .. MaxRunners :
          ResolvedFailed(r, "Warn") ~> (\E e \in sent : e # Rend)
    /\ [](\A r \in RunnerIds :
             ResolvedFailed(r, "Warn") =>
                 \A q \in RunnersOf(runners[r].task) : q <= r)

(* ------------------------------------------------------------------ *)
(* C26                                                                 *)
(* ------------------------------------------------------------------ *)

\* the lines a command's child writes to a stream ("out" or "err") over its
\* whole life, in the order it writes them
RECURSIVE Written(_, _, _)
Written(command, op, i) ==
    IF i > Len(Script(command)) THEN << >>
    ELSE (IF Script(command)[i].op = op
          THEN << Script(command)[i].line >> ELSE << >>)
         \o Written(command, op, i + 1)

\* the lines of a LogBuffer that came from stderr (without their prefix),
\* and those that came from stdout
IsErrLine(l) == l # << >> /\ Head(l) = "[ERR] "
IsEchoLine(l) == l # << >> /\ Head(l) = ">>> "
RECURSIVE StripErr(_)
StripErr(ls) == IF ls = << >> THEN << >> ELSE << Tail(Head(ls)) >> \o StripErr(Tail(ls))
StderrLogged(t) == StripErr(SelectSeq(logs[t], IsErrLine))
StdoutLogged(t) ==
    SelectSeq(logs[t], LAMBDA l : ~ IsErrLine(l) /\ ~ IsEchoLine(l))

IsPrefix(a, b) == Len(a) <= Len(b) /\ a = SubSeq(b, 1, Len(a))

\* C26: in the LogBuffer of a task that was run once, the lines read from
\* stdout are, in the order they stand there, the first lines the child wrote
\* to stdout, and the lines read from stderr the first lines it wrote to
\* stderr, however the reads of the two streams interleave.
C26_StreamOrderKept ==
    \A t \in TaskIds :
        Cardinality(RunnersOf(t)) <= 1 =>
            /\ IsPrefix(StdoutLogged(t), Written(tasks[t].command, "out", 1))
            /\ IsPrefix(StderrLogged(t), Written(tasks[t].command, "err", 1))

\* both lines of either stream are in the log, and the first line there is
\* a stderr line although the child wrote to stdout first
C26_Witness ==
    \E t \in TaskIds :
        /\ Len(StdoutLogged(t)) = 2
        /\ Len(StderrLogged(t)) = 2
        /\ IsErrLine(logs[t][1])

(* ------------------------------------------------------------------ *)
(* C27                                                                 *)
(* ------------------------------------------------------------------ *)

\* the lines the child of runner r has written to a stream so far
WrittenSoFar(r, op) ==
    { Script(Cmd(r))[i].line :
        i \in { j \in 1 .. Len(Script(Cmd(r))) :
                  j < runners[r].cpc /\ Script(Cmd(r))[j].op = op } }

\* C27: the step that ends the I/O pump finds both stdout and stderr at
\* end-of-stream, and once the pump has ended every line the child wrote to
\* stdout, and every line it wrote to stderr, has been appended to the
\* task's LogBuffer.
C27_PumpDrainsBothStreams ==
    /\ [][ \A r \in RunnerIds :
              (runners[r].pump = "run" /\ runners'[r].pump = "done")
              => Eof(runners[r], "stdout") /\ Eof(runners[r], "stderr") ]_vars
    /\ [](\A r \in RunnerIds :
             runners[r].pump = "done" =>
                 /\ \A l \in WrittenSoFar(r, "out") :
                       l \in Range(pushed[runners[r].task])
                 /\ \A l \in WrittenSoFar(r, "err") :
                       (<< "[ERR] " >> \o l) \in Range(pushed[runners[r].task]))

(* ------------------------------------------------------------------ *)
(* C28                                                                 *)
(* ------------------------------------------------------------------ *)

\* runner r writes its final status and ends in this step
EndsRun(r) == runners[r].pc = "loop" /\ runners'[r].pc = "done"

\* C28: the step in which a runner processes Stop sets its manual-stop flag,
\* leaves its child dead and reaped, keeps the runner in its loop and leaves
\* every status as it is; a task's status changes from Running to Stopped or
\* Failed only in the final step of one of its runners; and the final step
\* of a runner is taken only when that runner's child has exited, and leaves
\* the child reaped.
C28_FinalAfterWait ==
    /\ [][ \A r \in RunnerIds :
              (~ runners[r].is_manual_stop /\ runners'[r].is_manual_stop)
              => /\ runners'[r].pc = "loop"
                 /\ runners'[r].child = "reaped"
                 /\ status' = status ]_vars
    /\ [][ \A t \in TaskIds :
              (status[t].tag = "Running" /\ status'[t].tag # "Running")
              => \E r \in RunnersOf(t) : EndsRun(r) ]_vars
    /\ [][ \A r \in RunnerIds :
              EndsRun(r) => /\ ~ ChildAlive(r)
                            /\ runners[r].exit # "none"
                            /\ runners'[r].child = "reaped" ]_vars
    /\ [](\A r \in RunnerIds : runners[r].pc = "done" => ~ ChildAlive(r))

\* the runner of a long-running task has processed Stop: the child is killed
\* and reaped, the flag is set, and the status still reads Running because
\* the final status is not written yet
C28_Witness ==
    \E r \in RunnerIds :
        /\ Cmd(r) = "sleep"
        /\ runners[r].is_manual_stop
        /\ runners[r].child = "reaped"
        /\ runners[r].exit = "signal"
        /\ runners[r].pc = "loop"
        /\ status[runners[r].task].tag = "Running"

(* ------------------------------------------------------------------ *)
(* C29                                                                 *)
(* ------------------------------------------------------------------ *)

\* C29: whenever a task's status is Running, its control sender is Some and
\* feeds the mailbox of a live runner of that task, and every runner of the
\* task whose child is alive is that runner: a Stop sent through the sender
\* reaches every live child of the task.
C29_SenderReachesLiveChild ==
    \A t \in TaskIds :
        status[t].tag = "Running" =>
            /\ control_tx[t] # None
            /\ control_tx[t][1] \in RunnersOf(t)
            /\ Live(control_tx[t][1])
            /\ \A r \in RunnersOf(t) : ChildAlive(r) => control_tx[t] = Some(r)

(* ------------------------------------------------------------------ *)
(* C30                                                                 *)
(* ------------------------------------------------------------------ *)

\* a List-mode key pressed while there is no task
KeyOnEmptyList ==
    /\ Len(tasks) = 0
    /\ ListDown \/ ListUp \/ ListToggle

\* C30: no key handler ever panics, and with an empty task list Down, Up
\* and the toggle key in List mode leave the state as it is.
C30_HandleKeyNeverFaults ==
    /\ [](~ panicked)
    /\ [][ KeyOnEmptyList => UNCHANGED vars ]_vars

(* ------------------------------------------------------------------ *)
(* C31                                                                 *)
(* ------------------------------------------------------------------ *)

\* a step appends a local echo line to the LogBuffer of task t
EchoAppended(t) ==
    /\ Len(pushed'[t]) = Len(pushed[t]) + 1
    /\ IsEchoLine(pushed'[t][Len(pushed'[t])])

\* C31: a local echo line is appended to a task's LogBuffer only by a step
\* that also appends Stdin(text), with the echoed text, to the mailbox of a
\* live runner of that task; no echo is appended when the mailbox is full
\* or the runner has exited.
C31_EchoOnlyIfAccepted ==
    [][ \A t \in TaskIds :
           EchoAppended(t) =>
              \E r \in RunnersOf(t) :
                 /\ Live(r)
                 /\ Len(runners[r].rx) < CHANNEL_CAP
                 /\ runners'[r].rx = Append(runners[r].rx, Stdin(input))
                 /\ pushed'[t][Len(pushed'[t])] = EchoLine(input) ]_vars

(* ------------------------------------------------------------------ *)
(* C32                                                                 *)
(* ------------------------------------------------------------------ *)

\* the child of run r has exited, which closes its ends of the pipes
ChildExited(r) == r \in RunnerIds /\ runners[r].child \in {"zombie", "reaped"}

\* the supervising task and the pump of run r have ended and the status of
\* its task no longer reads Running for that run
RunOver(r) ==
    /\ r \in RunnerIds
    /\ runners[r].pc = "done"
    /\ runners[r].pump = "done"
    /\ status[runners[r].task] # Running(r)

\* C32: once the child of a run has exited and closed its output streams,
\* the supervising task and the I/O pump of that run eventually terminate
\* and the status of the task does not remain Running for that run.
C32_RunTerminates ==
    \A r \in 1 .. MaxRunners : ChildExited(r) ~> RunOver(r)

\* a run that ended on its own after the pump logged lines of its child
C32_Witness ==
    \E r \in RunnerIds :
        /\ RunOver(r)
        /\ status[runners[r].task].tag # "Running"
        /\ runners[r].child = "reaped"
        /\ ~ runners[r].is_manual_stop
        /\ logs[runners[r].task] # << >>

(* ------------------------------------------------------------------ *)
(* C33                                                                 *)
(* ------------------------------------------------------------------ *)

\* a step starts a run of a task or ends one
StartsOrEndsRun ==
    \/ ListToggle
    \/ \E r \in RunnerIds : RunnerSpawn(r) \/ RunnerWait(r) \/ PumpEnd(r)

\* C33: no step clears a LogBuffer: a step leaves the buffer of a task as
\* it is, or appends to it, or (on a full buffer) drops its oldest line and
\* appends; the steps that start a run and that end a run leave every buffer
\* as it is, so the lines of earlier runs stay, in order, ahead of the lines
\* of later runs, and below the eviction threshold the buffer holds every
\* line ever pushed.
C33_LogSurvivesRuns ==
    /\ [](\A t \in TaskIds : Len(pushed[t]) <= LOG_CAP => logs[t] = pushed[t])
    /\ [][ /\ \A t \in TaskIds :
                \/ IsPrefix(logs[t], logs'[t])
                \/ Len(logs[t]) = LOG_CAP /\ IsPrefix(Tail(logs[t]), logs'[t])
           /\ StartsOrEndsRun => logs' = logs ]_vars

\* the task was run twice, the second run after the first had ended, and
\* the buffer holds the line of the first run ahead of the line of the second
C33_Witness ==
    /\ Len(runners) = 2
    /\ \A r \in RunnerIds : runners[r].pc = "done" /\ runners[r].pump = "done"
    /\ logs[1] = << HiLine, HiLine >>
    /\ status[1] = Stopped

(* ------------------------------------------------------------------ *)
(* C37                                                                 *)
(* ------------------------------------------------------------------ *)

LogKey ==
    \/ LogEsc \/ LogEnterUpTo(1) \/ LogBackspace
    \/ \E c \in ListKeyChars : LogChar(c)
    \/ LogUp \/ LogDown

\* what the key handlers can change besides input and log_scroll
BesideInputAndScroll ==
    << files, tasks, status, logs, control_tx, selected_idx, view_mode, runners,
       hostVars, unpublished, sent, glob_recv, pushed, nSends >>

\* C35: a key handled in Log mode leaves selected_idx, every status and
\* every control sender as they are, adds no runner and puts no Stop into a
\* mailbox; a character, x, j and k included, is appended to the input
\* buffer and changes nothing else; Backspace removes the last character of
\* the input buffer and changes nothing else; Up and Down change nothing but
\* log_scroll; and a Log-mode key that changes a mailbox is Enter, appending
\* Stdin of the input buffer.
C35_LogKeysConfined ==
    [][ /\ view_mode = "Log" /\ LogKey =>
             /\ selected_idx' = selected_idx
             /\ status' = status /\ control_tx' = control_tx
             /\ Len(runners') = Len(runners)
             /\ \A r \in RunnerIds :
                   \/ runners'[r] = runners[r]
                   \/ /\ LogEnterUpTo(1)
                      /\ runners'[r] = [runners[r] EXCEPT !.rx = Append(@, Stdin(input))]
        /\ \A c \in ListKeyChars :
              LogChar(c) => /\ input' = Append(input, c)
                            /\ UNCHANGED << BesideInputAndScroll, log_scroll >>
        /\ LogBackspace =>
              /\ input # << >> => input' = SubSeq(input, 1, Len(input) - 1)
              /\ input = << >> => input' = << >>
              /\ UNCHANGED << BesideInputAndScroll, log_scroll >>
        /\ LogUp \/ LogDown => UNCHANGED << BesideInputAndScroll, input >> ]_vars

\* in Log mode on the running task, x was typed and is the input buffer,
\* the task still runs and no Stop is in its mailbox
C35_Witness ==
    /\ view_mode = "Log"
    /\ selected_idx = 0
    /\ input = << "x" >>
    /\ log_scroll = MaxScroll
    /\ status[1].tag = "Running"
    /\ \E r \in RunnersOf(1) : runners[r].pc = "loop" /\ runners[r].rx = << >>

(* ------------------------------------------------------------------ *)
(* C36                                                                 *)
(* ------------------------------------------------------------------ *)

\* the number of tasks the task document declares
DeclaredCount == IF BadDocument THEN 0 ELSE Len(files.document[1].descs)

====
